---- MODULE Spec2Model ----
(***************************************************************************)
(* Filter / sort / range query compilation of the record-management        *)
(* backend (app/utils/queries/queries.py) and the query-parameter parsing  *)
(* in front of it (app/api/_shared/schema/schemas.py).                     *)
(*                                                                         *)
(* Representation                                                          *)
(*   - a Python str is a sequence of pieces: a name or a separator of a    *)
(*     filter key is one piece (<<"pallets", ":", "gte">>), formatted text  *)
(*     is made of one-character pieces (<<"5", "-", "9">>), so that         *)
(*     str.split and f-strings are computed and not assumed;               *)
(*   - a JSON value is a record [t, i, s, l] tagged by t;                  *)
(*   - a SQL expression is a record [op, col, val, args].                  *)
(***************************************************************************)
EXTENDS Integers, Sequences, FiniteSets, TLC

VARIABLES
    pc,            \* position of the request in the handler
    filter_raw,    \* decoded ?filter= map as the engine receives it (sequence of <<key, value>>)
    sort_raw,      \* ?sort= query parameter
    range_raw,     \* ?range= query parameter
    sort_by,       \* explicit ordering argument of apply_filter_sort_range_for_query
    fallback_sort, \* fallback ordering argument
    apply_range,   \* apply_range argument
    data,          \* CollectionQueryParams.dict_data: [filter, sort, range]
    query,         \* data query
    count_query,   \* count query
    status,        \* HTTP status of the response, 0 while none
    raised,        \* where an exception was raised: "", "params", "compile" or "execute"
    headers,       \* Content-Range header of the response
    db,            \* rows of the orders table
    rows,          \* rows returned by the executor for the data query
    total_count,   \* result of the count query
    calls,         \* concurrent calls of apply_filter_sort_range_for_query: position, arguments, result
    frames,        \* the local variables of the calls, by frame
    stdout,        \* number of lines printed to the process's standard output
    schema,        \* column types of the Order class, shared by all calls
    create,        \* POST /orders: position, outcome of validation, created order, response status
    session,       \* the database session of POST /orders: pending order, state of the transaction
    events         \* history of the event bus

\* the state outside the handling of GET /orders
others == <<calls, frames, stdout, schema, create, session, events>>

vars == <<pc, filter_raw, sort_raw, range_raw, sort_by, fallback_sort, apply_range,
          data, query, count_query, status, raised, headers, db, rows, total_count,
          calls, frames, stdout, schema, create, session, events>>

-----------------------------------------------------------------------------
(* Bounds *)

MaxStart == 2
MaxEnd == 3
MaxRows == 3

-----------------------------------------------------------------------------
(* Python values *)

None == [t |-> "null", i |-> 0, s |-> <<>>, l |-> <<>>]
IntV(n) == [t |-> "int", i |-> n, s |-> <<>>, l |-> <<>>]
BoolV(b) == [t |-> "bool", i |-> IF b THEN 1 ELSE 0, s |-> <<>>, l |-> <<>>]
StrV(chars) == [t |-> "str", i |-> 0, s |-> chars, l |-> <<>>]
ListV(items) == [t |-> "list", i |-> 0, s |-> <<>>, l |-> items]

IsList(v) == v.t = "list"

Digit == <<"0", "1", "2", "3", "4", "5", "6", "7", "8", "9">>

RECURSIVE NatStr(_)
NatStr(n) == IF n < 10 THEN <<Digit[n + 1]>> ELSE NatStr(n \div 10) \o <<Digit[(n % 10) + 1]>>

\* str(n) of a Python int
IntStr(n) == IF n < 0 THEN <<"-">> \o NatStr(0 - n) ELSE NatStr(n)

\* what an f-string puts for {value}
PyStr(v) ==
    CASE v.t = "int" -> IntStr(v.i)
      [] v.t = "bool" -> IF v.i = 1 THEN <<"T", "r", "u", "e">> ELSE <<"F", "a", "l", "s", "e">>
      [] v.t = "str" -> v.s
      [] v.t = "null" -> <<"N", "o", "n", "e">>
      [] OTHER -> <<"[", "]">>

\* Optional[str] whose str is a token sequence
NoStr == [none |-> TRUE, str |-> <<>>]
SomeStr(x) == [none |-> FALSE, str |-> x]

-----------------------------------------------------------------------------
(* The Order entity and the SQLAlchemy types of its columns *)

ColumnType ==
    [id |-> "UUID", reference |-> "String", service |-> "Enum", eta_date |-> "Date",
     eta_time |-> "Time", pallets |-> "Integer", kilos |-> "Float", priority |-> "Boolean"]

Columns == DOMAIN ColumnType

\* attributes of the Order class that are not columns
NonColumnAttrs == {"convert_to_lower"}

\* hasattr(Model, name), name a token sequence
HasAttr(name) == Len(name) = 1 /\ name[1] \in Columns \cup NonColumnAttrs

\* the classes a column type is an instance of (the type and its SQLAlchemy base classes)
TypeBases(t) ==
    CASE t = "Enum" -> {"Enum", "String"}
      [] t = "Float" -> {"Float", "Numeric"}
      [] t \in {"SmallInteger", "BigInteger"} -> {t, "Integer"}
      [] OTHER -> {t}

\* isinstance(col_type, (DateTime, Date, Time, Integer, SmallInteger, BigInteger, Boolean))
ComparisonTypes == {"DateTime", "Date", "Time", "Integer", "SmallInteger", "BigInteger", "Boolean"}

IsComparisonColumn(column) == TypeBases(ColumnType[column]) \cap ComparisonTypes # {}

\* isinstance(col_type, (DateTime, Integer, SmallInteger, BigInteger, Boolean)) of the global search
QueryExcludedTypes == {"DateTime", "Integer", "SmallInteger", "BigInteger", "Boolean"}

-----------------------------------------------------------------------------
(* SQL expressions *)

Leaf(op, column, value) == [op |-> op, col |-> column, val |-> value, args |-> <<>>]

\* what get_filter_expression returns when there is nothing to filter on
NoExpr == Leaf("none", "", None)

\* an AttributeError raised while the expression is built
Raised == Leaf("raise", "", None)

RECURSIVE FlattenArgs(_, _)
FlattenArgs(op, args) ==
    IF args = <<>> THEN <<>>
    ELSE (IF Head(args).op = op THEN Head(args).args ELSE <<Head(args)>>)
         \o FlattenArgs(op, Tail(args))

HasRaised(args) == \E k \in 1..Len(args) : args[k].op = "raise"

\* sqlalchemy and_ / or_: one clause is returned as it is, nested lists of the same
\* operator are flattened; an exception in building an argument propagates
ClauseList(op, args) ==
    IF HasRaised(args) THEN Raised
    ELSE IF Len(args) = 1 THEN args[1]
    ELSE [op |-> op, col |-> "", val |-> None, args |-> FlattenArgs(op, args)]

or_(args) == ClauseList("or", args)
and_(args) == ClauseList("and", args)

\* f"%{value}%"
IlikePattern(value) == StrV(<<"%">> \o PyStr(value) \o <<"%">>)

\* operator_map.get(operator, column == value)
OperatorMap(operator) ==
    CASE operator = SomeStr(<<"gt">>) -> ">"
      [] operator = SomeStr(<<"gte">>) -> ">="
      [] operator = SomeStr(<<"lt">>) -> "<"
      [] operator = SomeStr(<<"lte">>) -> "<="
      [] operator = SomeStr(<<"eq">>) -> "="
      [] operator = SomeStr(<<"ne">>) -> "!="
      [] OTHER -> "="

\* FilterColumn with the column type test left out: a known comparison operator is
\* applied to any column
FilterColumn_OperatorOnAnyType(column, value, operator) ==
    IF column \notin Columns THEN Raised
    ELSE IF IsList(value)
         THEN IF operator = SomeStr(<<"nin">>)
              THEN Leaf("notin", column, value)
              ELSE Leaf("in", column, value)
    ELSE IF IsComparisonColumn(column) \/ (~operator.none /\ operator.str \in {<<"gt">>, <<"gte">>, <<"lt">>, <<"lte">>, <<"eq">>, <<"ne">>})
         THEN Leaf(OperatorMap(operator), column, value)
    ELSE Leaf("ilike", column, IlikePattern(value))

\* FilterColumn with the column type tested before the list test
FilterColumn_TypeBeforeList(column, value, operator) ==
    IF column \notin Columns THEN Raised
    ELSE IF ~IsComparisonColumn(column) THEN Leaf("ilike", column, IlikePattern(value))
    ELSE IF IsList(value)
         THEN IF operator = SomeStr(<<"nin">>)
              THEN Leaf("notin", column, value)
              ELSE Leaf("in", column, value)
    ELSE Leaf(OperatorMap(operator), column, value)

\* _append_filter_column_to for a single column: the expression it appends
FilterColumn(column, value, operator) ==
    IF column \notin Columns THEN Raised
    ELSE IF IsList(value)
         THEN IF operator = SomeStr(<<"nin">>)
              THEN Leaf("notin", column, value)
              ELSE Leaf("in", column, value)
    ELSE IF IsComparisonColumn(column)
         THEN Leaf(OperatorMap(operator), column, value)
    ELSE Leaf("ilike", column, IlikePattern(value))

\* AppendFilterColumnTo with the columns of a group combined by and_
AppendFilterColumnTo_And(columns, value, operator) ==
    IF Len(columns) > 1
    THEN and_([k \in 1..Len(columns) |-> FilterColumn(columns[k], value, operator)])
    ELSE FilterColumn(columns[1], value, operator)

\* _append_filter_column_to for a list of columns: the expression it appends
AppendFilterColumnTo(columns, value, operator) ==
    IF Len(columns) > 1
    THEN or_([k \in 1..Len(columns) |-> FilterColumn(columns[k], value, operator)])
    ELSE FilterColumn(columns[1], value, operator)

-----------------------------------------------------------------------------
(* Filter keys *)

RECURSIVE Split(_, _)
\* str.split(sep) on a token sequence
Split(str, sep) ==
    IF \A k \in 1..Len(str) : str[k] # sep THEN <<str>>
    ELSE LET i == CHOOSE k \in 1..Len(str) : str[k] = sep /\ \A j \in 1..(k - 1) : str[j] # sep
         IN <<SubSeq(str, 1, i - 1)>> \o Split(SubSeq(str, i + 1, Len(str)), sep)

\* safe_unpack_filter taking the first two parts of a key of more than two parts
safe_unpack_filter_FirstTwoParts(filtr) ==
    LET parts == Split(filtr, ":")
    IN  IF Len(parts) = 1 THEN <<SomeStr(parts[1]), NoStr>>
        ELSE <<SomeStr(parts[1]), SomeStr(parts[2])>>

\* safe_unpack_filter: <<filter name, operator>>, both None for more than two parts
safe_unpack_filter(filtr) ==
    LET parts == Split(filtr, ":")
    IN  IF Len(parts) = 1 THEN <<SomeStr(parts[1]), NoStr>>
        ELSE IF Len(parts) = 2 THEN <<SomeStr(parts[1]), SomeStr(parts[2])>>
        ELSE <<NoStr, NoStr>>

ExcludeFilterKeys == {<<"is_search_in_docs">>, <<"doc_search_text">>}

\* exclude_keys_from_filter
exclude_keys_from_filter(filters, exclude_keys) ==
    SelectSeq(filters, LAMBDA e : e[1] \notin exclude_keys)

\* dict.get(key, None) on a sequence of <<key, value>> entries with distinct keys
DictGet(filters, key) ==
    IF \E k \in 1..Len(filters) : filters[k][1] = key
    THEN filters[CHOOSE k \in 1..Len(filters) : filters[k][1] = key][2]
    ELSE None

\* the columns a field path names: getattr(Model, fk) for each fk with hasattr(Model, fk)
KeyColumns(filtr_key) ==
    LET fks == Split(filtr_key, "|")
        known == SelectSeq(fks, HasAttr)
    IN  [k \in 1..Len(known) |-> known[k][1]]

\* the expression one key of the first loop of get_filter_expression appends, as a
\* sequence of 0 or 1 expressions
KeyFilters(filters, filtr) ==
    LET unpacked == safe_unpack_filter(filtr)
        filtr_key == unpacked[1]
        filtr_operator == unpacked[2]
    IN  IF filtr_key.none \/ DictGet(filters, filtr) = None THEN <<>>
        ELSE IF KeyColumns(filtr_key.str) = <<>> THEN <<>>
        ELSE <<AppendFilterColumnTo(KeyColumns(filtr_key.str), DictGet(filters, filtr), filtr_operator)>>

\* KeyQueryFilters with the field path split on "|" and every member of a group searched
KeyQueryFilters_GroupMembers(filtr, global_filter_query) ==
    LET filtr_key == safe_unpack_filter(filtr)[1]
        columns == IF filtr_key.none THEN <<>> ELSE KeyColumns(filtr_key.str)
    IN  IF \E k \in 1..Len(columns) : columns[k] \notin Columns THEN <<Raised>>
        ELSE LET searched == SelectSeq(columns,
                     LAMBDA c : TypeBases(ColumnType[c]) \cap QueryExcludedTypes = {})
             IN  [k \in 1..Len(searched) |-> FilterColumn(searched[k], global_filter_query, NoStr)]

\* the expression one key of the global-search loop appends, 0 or 1 of them
KeyQueryFilters(filtr, global_filter_query) ==
    LET filtr_key == safe_unpack_filter(filtr)[1]
    IN  IF filtr_key.none \/ filtr_key.str = <<>> \/ ~HasAttr(filtr_key.str) THEN <<>>
        ELSE LET column == filtr_key.str[1]
             IN  IF column \notin Columns THEN <<Raised>>
                 ELSE IF TypeBases(ColumnType[column]) \cap QueryExcludedTypes # {} THEN <<>>
                 ELSE <<FilterColumn(column, global_filter_query, NoStr)>>

RECURSIVE Concat(_)
Concat(seqs) == IF seqs = <<>> THEN <<>> ELSE Head(seqs) \o Concat(Tail(seqs))

\* dict.pop(key, None): [value, rest], rest being the dict afterwards
DictPop(filters, key) ==
    [value |-> DictGet(filters, key), rest |-> SelectSeq(filters, LAMBDA e : e[1] # key)]

\* FilterObjects with line 155 removing the excluded keys from the caller's dict itself
FilterObjects_InPlace(filters0) ==
    LET kept == exclude_keys_from_filter(filters0, ExcludeFilterKeys)
        popped == DictPop(kept, <<"_query">>)
    IN  [arg |-> popped.rest, filters |-> popped.rest, global_filter_query |-> popped.value]

\* FilterObjects with the entries of null value left out of the dict the loops go through
FilterObjects_WithoutNulls(filters0) ==
    LET new == exclude_keys_from_filter(filters0, ExcludeFilterKeys)
        popped == DictPop(new, <<"_query">>)
    IN  [arg |-> filters0, filters |-> SelectSeq(popped.rest, LAMBDA e : e[2] # None),
         global_filter_query |-> popped.value]

\* lines 154-157 of get_filter_expression: exclude_keys_from_filter builds a new dict, the
\* local name filters is rebound to it and "_query" is popped from it. arg is the dict
\* the caller passed as it is afterwards, filters the dict the loops go through
FilterObjects(filters0) ==
    LET new == exclude_keys_from_filter(filters0, ExcludeFilterKeys)
        popped == DictPop(new, <<"_query">>)
    IN  [arg |-> filters0, filters |-> popped.rest, global_filter_query |-> popped.value]

\* get_filter_expression with the clauses of the keys combined by or_
get_filter_expression_OrOfKeys(filters0) ==
    LET global_filter_query == FilterObjects(filters0).global_filter_query
        filters == FilterObjects(filters0).filters
        fields_filters == Concat([k \in 1..Len(filters) |-> KeyFilters(filters, filters[k][1])])
        fields_filters_by_query ==
            IF global_filter_query # None
            THEN Concat([k \in 1..Len(filters) |-> KeyQueryFilters(filters[k][1], global_filter_query)])
            ELSE <<>>
    IN  IF HasRaised(fields_filters) \/ HasRaised(fields_filters_by_query) THEN Raised
        ELSE IF fields_filters = <<>> /\ fields_filters_by_query = <<>> THEN NoExpr
        ELSE IF fields_filters # <<>> /\ fields_filters_by_query # <<>>
             THEN and_(<<or_(fields_filters), or_(fields_filters_by_query)>>)
        ELSE IF fields_filters # <<>> THEN or_(fields_filters)
        ELSE or_(fields_filters_by_query)

\* get_filter_expression with the global search combined with the explicit filter by or_
get_filter_expression_OrWithQuery(filters0) ==
    LET global_filter_query == FilterObjects(filters0).global_filter_query
        filters == FilterObjects(filters0).filters
        fields_filters == Concat([k \in 1..Len(filters) |-> KeyFilters(filters, filters[k][1])])
        fields_filters_by_query ==
            IF global_filter_query # None
            THEN Concat([k \in 1..Len(filters) |-> KeyQueryFilters(filters[k][1], global_filter_query)])
            ELSE <<>>
    IN  IF HasRaised(fields_filters) \/ HasRaised(fields_filters_by_query) THEN Raised
        ELSE IF fields_filters = <<>> /\ fields_filters_by_query = <<>> THEN NoExpr
        ELSE IF fields_filters # <<>> /\ fields_filters_by_query # <<>>
             THEN or_(<<and_(fields_filters), or_(fields_filters_by_query)>>)
        ELSE IF fields_filters # <<>> THEN and_(fields_filters)
        ELSE or_(fields_filters_by_query)

\* get_filter_expression
get_filter_expression(filters0) ==
    LET global_filter_query == FilterObjects(filters0).global_filter_query
        filters == FilterObjects(filters0).filters
        fields_filters == Concat([k \in 1..Len(filters) |-> KeyFilters(filters, filters[k][1])])
        fields_filters_by_query ==
            IF global_filter_query # None
            THEN Concat([k \in 1..Len(filters) |-> KeyQueryFilters(filters[k][1], global_filter_query)])
            ELSE <<>>
    IN  IF HasRaised(fields_filters) \/ HasRaised(fields_filters_by_query) THEN Raised
        ELSE IF fields_filters = <<>> /\ fields_filters_by_query = <<>> THEN NoExpr
        ELSE IF fields_filters # <<>> /\ fields_filters_by_query # <<>>
             THEN and_(<<and_(fields_filters), or_(fields_filters_by_query)>>)
        ELSE IF fields_filters # <<>> THEN and_(fields_filters)
        ELSE or_(fields_filters_by_query)

-----------------------------------------------------------------------------
(* Ordering, range and the assembled queries *)

ORDER_ASC == StrV(<<"ASC">>)
ORDER_DESC == StrV(<<"DESC">>)

OrderExpr(column, dir) == [col |-> column, dir |-> dir]

\* asc_desc_expression with the two directions exchanged
asc_desc_expression_Exchanged(order_expression, order) ==
    IF order = ORDER_ASC THEN OrderExpr(order_expression, "desc")
    ELSE IF order = ORDER_DESC THEN OrderExpr(order_expression, "asc")
    ELSE OrderExpr(order_expression, "")

\* asc_desc_expression
asc_desc_expression(order_expression, order) ==
    IF order = ORDER_ASC THEN OrderExpr(order_expression, "asc")
    ELSE IF order = ORDER_DESC THEN OrderExpr(order_expression, "desc")
    ELSE OrderExpr(order_expression, "")

\* getattr(Model, key) succeeds and gives a column, which .asc(), .desc() and order_by accept
CanGetAttr(key) == key.t = "str" /\ HasAttr(key.s) /\ key.s[1] \in Columns

\* get_sort_by_key_and_order_expression, for a key with CanGetAttr(key)
get_sort_by_key_and_order_expression(key, order) == asc_desc_expression(key.s[1], order)

NoInt == [set |-> FALSE, n |-> 0]
SomeInt(n) == [set |-> TRUE, n |-> n]

\* select(Order) and select(func.count()).select_from(Order)
EmptyQuery == [where |-> <<>>, order_by |-> <<>>, offset |-> NoInt, limit |-> NoInt]

\* with_range
with_range(q, range_) ==
    LET range_from == range_[1]
        range_to == range_[2]
    IN  IF range_to >= 0
        THEN [q EXCEPT !.offset = SomeInt(range_from), !.limit = SomeInt(range_to - range_from + 1)]
        ELSE q

NoFilter == [none |-> TRUE, map |-> <<>>]
SomeFilter(m) == [none |-> FALSE, map |-> m]
NoSort == [none |-> TRUE, items |-> <<>>]
SomeSort(items) == [none |-> FALSE, items |-> items]
NoRange == [none |-> TRUE, start |-> None, end |-> None]
SomeRange(start, end) == [none |-> FALSE, start |-> start, end |-> end]

NoData == [filter |-> NoFilter, sort |-> NoSort, range |-> NoRange]

\* step 1 of apply_filter_sort_range_for_query: the where clause
ApplyFilter(q, d) ==
    IF ~d.filter.none /\ d.filter.map # <<>>
    THEN LET filter_expr == get_filter_expression(d.filter.map)
         IN  IF filter_expr # NoExpr THEN [q EXCEPT !.where = @ \o <<filter_expr>>] ELSE q
    ELSE q

FilterRaises(d) ==
    ~d.filter.none /\ d.filter.map # <<>> /\ get_filter_expression(d.filter.map) = Raised

\* ApplySort with the fallback ordering tried before data["sort"]
ApplySort_FallbackFirst(q, d, sortBy, fallbackSort) ==
    IF sortBy # <<>> THEN [q EXCEPT !.order_by = @ \o sortBy]
    ELSE IF fallbackSort # <<>> THEN [q EXCEPT !.order_by = @ \o fallbackSort]
    ELSE IF ~d.sort.none /\ d.sort.items # <<>>
         THEN [q EXCEPT !.order_by =
                  @ \o <<get_sort_by_key_and_order_expression(d.sort.items[1], d.sort.items[2])>>]
    ELSE q

\* step 2: the ordering of the data query
ApplySort(q, d, sortBy, fallbackSort) ==
    IF sortBy # <<>> THEN [q EXCEPT !.order_by = @ \o sortBy]
    ELSE IF ~d.sort.none /\ d.sort.items # <<>>
         THEN [q EXCEPT !.order_by =
                  @ \o <<get_sort_by_key_and_order_expression(d.sort.items[1], d.sort.items[2])>>]
    ELSE IF fallbackSort # <<>> THEN [q EXCEPT !.order_by = @ \o fallbackSort]
    ELSE q

\* unpacking data["sort"] into two names or getattr(Model, sort_field) raises
SortRaises(d, sortBy) ==
    /\ sortBy = <<>>
    /\ ~d.sort.none /\ d.sort.items # <<>>
    /\ (Len(d.sort.items) # 2 \/ ~CanGetAttr(d.sort.items[1]))

\* ApplyRange with an exclusive end
ApplyRange_ExclusiveEnd(q, d, applyRange) ==
    IF applyRange /\ ~d.range.none
    THEN IF d.range.end.i >= 0
         THEN [q EXCEPT !.offset = SomeInt(d.range.start.i),
                        !.limit = SomeInt(d.range.end.i - d.range.start.i)]
         ELSE q
    ELSE q

\* step 3: offset and limit of the data query
ApplyRange(q, d, applyRange) ==
    IF applyRange /\ ~d.range.none
    THEN IF d.range.end.i >= 0
         THEN [q EXCEPT !.offset = SomeInt(d.range.start.i),
                        !.limit = SomeInt(d.range.end.i - d.range.start.i + 1)]
         ELSE q
    ELSE q

\* range_to >= 0 or range_to - range_from raises TypeError on None
RangeRaises(d, applyRange) ==
    /\ applyRange /\ ~d.range.none
    /\ (d.range.end = None \/ (d.range.end.i >= 0 /\ d.range.start = None))

\* apply_filter_sort_range_for_query raises
ApplyRaises(d, sortBy, applyRange) ==
    FilterRaises(d) \/ SortRaises(d, sortBy) \/ RangeRaises(d, applyRange)

\* apply_filter_sort_range_for_query with the range put on the count query as well
apply_filter_sort_range_for_query_CountRanged(q, cq, d, sortBy, fallbackSort, applyRange) ==
    <<ApplyRange(ApplySort(ApplyFilter(q, d), d, sortBy, fallbackSort), d, applyRange),
      ApplyRange(ApplyFilter(cq, d), d, applyRange)>>

\* apply_filter_sort_range_for_query: <<query, count_query>>
apply_filter_sort_range_for_query(q, cq, d, sortBy, fallbackSort, applyRange) ==
    <<ApplyRange(ApplySort(ApplyFilter(q, d), d, sortBy, fallbackSort), d, applyRange),
      ApplyFilter(cq, d)>>

\* data as the caller holds it after apply_filter_sort_range_for_query: the filter dict
\* has been through get_filter_expression when line 242 let it in
DataAfterApply(d) ==
    IF ~d.filter.none /\ d.filter.map # <<>>
    THEN [d EXCEPT !.filter.map = FilterObjects(@).arg]
    ELSE d

\* generate_range with the end clamped to the last row
generate_range_clamped(range_, count) ==
    IF range_.none
    THEN <<"0", "-">> \o IntStr(count) \o <<"/">> \o IntStr(count)
    ELSE PyStr(range_.start) \o <<"-">>
         \o (IF range_.end.i >= count THEN IntStr(count - 1) ELSE PyStr(range_.end))
         \o <<"/">> \o IntStr(count)

\* generate_range: the Content-Range value
generate_range(range_, count) ==
    IF range_.none
    THEN <<"0", "-">> \o IntStr(count) \o <<"/">> \o IntStr(count)
    ELSE PyStr(range_.start) \o <<"-">> \o PyStr(range_.end) \o <<"/">> \o IntStr(count)

-----------------------------------------------------------------------------
(* Query parameter parsing: CollectionQueryParams of the orders collection *)

\* a raw query parameter: absent, text that is not JSON, or a JSON array of items
AbsentParam == [kind |-> "absent", items |-> <<>>]
InvalidParam == [kind |-> "invalid", items |-> <<>>]
JsonParam(items) == [kind |-> "json", items |-> items]

\* create_sort_model(["id", "reference"])
SortFields == {<<"id">>, <<"reference">>}

\* SortModel.check_sort_by: the validated field
check_sort_by(v) == IF v # None /\ ~(v.t = "str" /\ v.s \in SortFields) THEN None ELSE v

\* SortModel.check_sort_order raises ValueError
check_sort_order_raises(v) == v # None /\ v \notin {ORDER_ASC, ORDER_DESC}

\* CollectionQueryParams._parse_sort: [status, sort], status 0 when it returns
_parse_sort(raw) ==
    IF raw.kind = "absent" THEN [status |-> 0, sort |-> NoSort]
    ELSE IF raw.kind = "invalid" THEN [status |-> 500, sort |-> NoSort]
    ELSE IF Len(raw.items) < 2 THEN [status |-> 500, sort |-> NoSort]
    ELSE LET validate == [sort |-> check_sort_by(raw.items[1]), order |-> raw.items[2]]
         IN  IF check_sort_order_raises(raw.items[2])
             THEN [status |-> 422, sort |-> NoSort]
             ELSE [status |-> 0, sort |-> SomeSort(raw.items)]

\* is_non_negative raises ValueError
is_non_negative_raises(value) == value # None /\ value.i < 0

\* CollectionQueryParams._parse_range: [status, range]
_parse_range(raw) ==
    IF raw.kind = "absent" THEN [status |-> 0, range |-> NoRange]
    ELSE IF raw.kind = "invalid" THEN [status |-> 500, range |-> NoRange]
    ELSE IF Len(raw.items) # 2 THEN [status |-> 500, range |-> NoRange]
    ELSE LET start == raw.items[1]
             end == raw.items[2]
         IN  IF \/ start.t \notin {"int", "null"} \/ end.t \notin {"int", "null"}
                \/ is_non_negative_raises(start) \/ is_non_negative_raises(end)
             THEN [status |-> 422, range |-> NoRange]
             ELSE [status |-> 0, range |-> SomeRange(start, end)]

\* DateRangeFilterModel: the values of the enum, each one piece
DateRangeFilterModel ==
    {<<"today">>, <<"yesterday">>, <<"tomorrow">>, <<"this_week">>, <<"this_month">>,
     <<"last_week">>, <<"All">>}

\* Filter_model of the orders collection: the declared fields, in declaration order
FilterModelFields == <<"id", "reference", "service", "date_range", "priority">>

\* a value the field of that name accepts
FilterValueValid(name, v) ==
    \/ v = None
    \/ name \in {"id", "reference"} /\ v.t = "str"
    \/ name = "date_range" /\ v.t = "str" /\ v.s \in DateRangeFilterModel
    \/ name = "service" /\ v.t = "int" /\ v.i \in 1..3
    \/ name = "priority" /\ (v.t = "bool" \/ (v.t = "int" /\ v.i \in {0, 1}))

\* the value as the model holds it
FilterValueCoerced(name, v) ==
    IF name = "priority" /\ v.t = "int" THEN BoolV(v.i = 1) ELSE v

\* CollectionQueryParams._parse_filter: [status, filter]; raw.items are <<key, value>>
\* entries; keys the model does not declare are ignored and model_dump lists the set
\* fields in declaration order
_parse_filter(raw) ==
    IF raw.kind = "absent" THEN [status |-> 0, filter |-> NoFilter]
    ELSE IF raw.kind = "invalid" THEN [status |-> 400, filter |-> NoFilter]
    ELSE LET declared == SelectSeq(FilterModelFields, LAMBDA f : \E k \in 1..Len(raw.items) : raw.items[k][1] = <<f>>)
         IN  IF \E k \in 1..Len(declared) : ~FilterValueValid(declared[k], DictGet(raw.items, <<declared[k]>>))
             THEN [status |-> 422, filter |-> NoFilter]
             ELSE [status |-> 0,
                   filter |-> SomeFilter([k \in 1..Len(declared) |->
                       <<(<<declared[k]>>), FilterValueCoerced(declared[k], DictGet(raw.items, <<declared[k]>>))>>])]

\* CollectionQueryParams.__init__: the first parameter that fails decides the status
ParsedStatus(fraw, sraw, rraw) ==
    IF _parse_filter(fraw).status # 0 THEN _parse_filter(fraw).status
    ELSE IF _parse_sort(sraw).status # 0 THEN _parse_sort(sraw).status
    ELSE _parse_range(rraw).status

\* CollectionQueryParams.dict_data
dict_data(fraw, sraw, rraw) ==
    [filter |-> _parse_filter(fraw).filter, sort |-> _parse_sort(sraw).sort,
     range |-> _parse_range(rraw).range]

-----------------------------------------------------------------------------
(* The executor: the orders table and the evaluation of a query on it *)

ServiceNames ==
    << <<"R", "E", "L", "O", "A", "D", "_", "C", "A", "R", "_", "C", "A", "R">>,
       <<"R", "E", "L", "O", "A", "D", "_", "C", "A", "R", "_", "T", "E", "R", "M", "I", "N", "A", "L", "_", "C", "A", "R">>,
       <<"I", "N", "T", "O", "_", "P", "L", "U", "K", "K", "_", "S", "T", "O", "R", "A", "G", "E">> >>

\* the k-th order of the table; a cell that is only ever matched as text holds its text
Row(k) ==
    [id |-> StrV(<<"a">> \o NatStr(k)),
     reference |-> StrV((IF k % 2 = 1 THEN <<"T">> ELSE <<"x">>) \o NatStr(k)),
     service |-> StrV(ServiceNames[((k - 1) % 3) + 1]),
     eta_date |-> IntV(k),
     eta_time |-> IntV(k % 2),
     pallets |-> IntV(k),
     kilos |-> StrV(NatStr(k) \o <<".", "5">>),
     priority |-> BoolV(k % 2 = 1)]

Table(n) == [k \in 1..n |-> Row(k)]

UpperCase == <<"A", "B", "C", "D", "E", "F", "G", "H", "I", "J", "K", "L", "M",
               "N", "O", "P", "Q", "R", "S", "T", "U", "V", "W", "X", "Y", "Z">>
LowerCase == <<"a", "b", "c", "d", "e", "f", "g", "h", "i", "j", "k", "l", "m",
               "n", "o", "p", "q", "r", "s", "t", "u", "v", "w", "x", "y", "z">>

Lower(c) ==
    IF \E k \in 1..26 : UpperCase[k] = c
    THEN LowerCase[CHOOSE k \in 1..26 : UpperCase[k] = c]
    ELSE c

RECURSIVE ILike(_, _)
\* text ILIKE pattern: % matches any run of characters, _ any one character
ILike(text, pattern) ==
    IF pattern = <<>> THEN text = <<>>
    ELSE IF Head(pattern) = "%"
         THEN ILike(text, Tail(pattern)) \/ (text # <<>> /\ ILike(Tail(text), pattern))
    ELSE IF text = <<>> THEN FALSE
    ELSE /\ (Head(pattern) = "_" \/ Lower(Head(pattern)) = Lower(Head(text)))
         /\ ILike(Tail(text), Tail(pattern))

Comparisons == {">", ">=", "<", "<=", "=", "!="}

RECURSIVE Eval(_, _)
\* the row satisfies the expression
Eval(expr, row) ==
    CASE expr.op = "and" -> \A k \in 1..Len(expr.args) : Eval(expr.args[k], row)
      [] expr.op = "or" -> \E k \in 1..Len(expr.args) : Eval(expr.args[k], row)
      [] expr.op = "ilike" -> ILike(row[expr.col].s, expr.val.s)
      [] expr.op = "in" -> \E k \in 1..Len(expr.val.l) : expr.val.l[k] = row[expr.col]
      [] expr.op = "notin" -> \A k \in 1..Len(expr.val.l) : expr.val.l[k] # row[expr.col]
      [] expr.op = ">" -> row[expr.col].i > expr.val.i
      [] expr.op = ">=" -> row[expr.col].i >= expr.val.i
      [] expr.op = "<" -> row[expr.col].i < expr.val.i
      [] expr.op = "<=" -> row[expr.col].i <= expr.val.i
      [] expr.op = "=" -> row[expr.col].i = expr.val.i
      [] expr.op = "!=" -> row[expr.col].i # expr.val.i
      [] OTHER -> FALSE

RECURSIVE TypeError(_)
\* the database rejects the expression: a comparison of a column with text
TypeError(expr) ==
    \/ expr.op \in Comparisons /\ expr.val.t \notin {"int", "bool"}
    \/ \E k \in 1..Len(expr.args) : TypeError(expr.args[k])

ExecuteFails(q) ==
    \/ \E k \in 1..Len(q.where) : TypeError(q.where[k])
    \/ q.limit.set /\ q.limit.n < 0

Matching(q, table) ==
    SelectSeq(table, LAMBDA row : \A k \in 1..Len(q.where) : Eval(q.where[k], row))

\* the characters of the cells in the order of their codes; the texts of the table
\* order the same way under a case-insensitive collation
CharOrder == <<".">> \o Digit \o UpperCase \o <<"_">> \o LowerCase

CharRank(c) == CHOOSE k \in 1..Len(CharOrder) : CharOrder[k] = c

RECURSIVE StrLess(_, _)
StrLess(a, b) ==
    IF b = <<>> THEN FALSE
    ELSE IF a = <<>> THEN TRUE
    ELSE IF Head(a) = Head(b) THEN StrLess(Tail(a), Tail(b))
    ELSE CharRank(Head(a)) < CharRank(Head(b))

\* cell a sorts before cell b
CellLess(a, b) == IF a.t = "str" THEN StrLess(a.s, b.s) ELSE a.i < b.i

RECURSIVE RowBefore(_, _, _)
\* row r1 sorts strictly before row r2 under the ORDER BY list; a bare column is ascending
RowBefore(order_by, r1, r2) ==
    IF order_by = <<>> THEN FALSE
    ELSE LET o == Head(order_by)
             a == IF o.dir = "desc" THEN r2[o.col] ELSE r1[o.col]
             b == IF o.dir = "desc" THEN r1[o.col] ELSE r2[o.col]
         IN  CellLess(a, b) \/ (a = b /\ RowBefore(Tail(order_by), r1, r2))

RECURSIVE InsertRow(_, _, _)
InsertRow(order_by, row, sorted) ==
    IF sorted = <<>> THEN <<row>>
    ELSE IF RowBefore(order_by, row, Head(sorted)) THEN <<row>> \o sorted
    ELSE <<Head(sorted)>> \o InsertRow(order_by, row, Tail(sorted))

RECURSIVE OrderRows(_, _)
\* ORDER BY on the matching rows
OrderRows(order_by, matching) ==
    IF order_by = <<>> \/ matching = <<>> THEN matching
    ELSE InsertRow(order_by, matching[Len(matching)],
                   OrderRows(order_by, SubSeq(matching, 1, Len(matching) - 1)))

\* OFFSET and LIMIT on the matching rows
Paginate(q, matching) ==
    LET from == IF q.offset.set THEN q.offset.n + 1 ELSE 1
        to == IF q.limit.set
              THEN (IF from + q.limit.n - 1 < Len(matching) THEN from + q.limit.n - 1 ELSE Len(matching))
              ELSE Len(matching)
    IN  SubSeq(matching, from, to)

NoHeader == [set |-> FALSE, value |-> <<>>]
SomeHeader(value) == [set |-> TRUE, value |-> value]

\* ContentRangeHeader set only for a range that does not start at the first row
ContentRangeHeader_StartTruthy(d, count) ==
    IF ~d.range.none /\ d.range.start # None /\ d.range.start.i # 0
    THEN SomeHeader(generate_range(d.range, count))
    ELSE NoHeader

\* get_orders: the Content-Range header is set if query_params.dict_data.get("range")
ContentRangeHeader(d, count) ==
    IF ~d.range.none THEN SomeHeader(generate_range(d.range, count)) ELSE NoHeader

-----------------------------------------------------------------------------
(* Inputs *)

Unknown == "unknown_field"

SortFieldValues == {StrV(<<c>>) : c \in {"id", "reference", "pallets", Unknown}} \cup {None}
SortOrderValues == {ORDER_ASC, ORDER_DESC, StrV(<<"SIDEWAYS">>), StrV(<<"asc">>), None}

SortRaws ==
    {AbsentParam, InvalidParam, JsonParam(<<StrV(<<"reference">>)>>)}
    \cup {JsonParam(<<f, o>>) : f \in SortFieldValues, o \in SortOrderValues}

RangeRaws ==
    {AbsentParam, InvalidParam, JsonParam(<<IntV(0)>>), JsonParam(<<None, None>>)}
    \cup {JsonParam(<<IntV(a), IntV(b)>>) : a \in (0 - 1)..MaxStart, b \in (0 - 1)..MaxEnd}

FilterRaws ==
    {AbsentParam, InvalidParam,
     JsonParam(<< <<(<<"reference">>), StrV(<<"t">>)>> >>),
     JsonParam(<< <<(<<"priority">>), BoolV(TRUE)>>, <<(<<"pallets", ":", "gte">>), IntV(2)>> >>),
     JsonParam(<< <<(<<"reference">>), IntV(1)>> >>),
     JsonParam(<< <<(<<"service">>), IntV(1)>> >>),
     JsonParam(<< <<(<<"date_range">>), StrV(<<"today">>)>> >>),
     JsonParam(<< <<(<<"date_range">>), StrV(<<"All">>)>> >>),
     JsonParam(<< <<(<<"date_range">>), StrV(<<"next_year">>)>> >>)}

-----------------------------------------------------------------------------
(* Date ranges: a date is its day number, day 1 being Monday 1 January 2024, as the
   eta_date cells of the table are; the dates used lie in that January and the week
   before it *)

\* datetime.now(timezone.utc).date()
Today == 2

NoInterval == [none |-> TRUE, start |-> 0, end |-> 0]
SomeInterval(start, end) == [none |-> FALSE, start |-> start, end |-> end]

\* date.weekday(): 0 for Monday
weekday(d) == (d - 1) % 7

\* get_week_range: Monday to Sunday of the week of the date
get_week_range(target_date) ==
    SomeInterval(target_date - weekday(target_date), target_date - weekday(target_date) + 6)

\* get_month_range for a date of that January
get_month_range(target_date) == SomeInterval(1, 31)

\* get_date_range_filter: the interval of a value of date_range, none for 'All' and for
\* an unknown value
get_date_range_filter(date_range) ==
    CASE date_range = <<"today">> -> SomeInterval(Today, Today)
      [] date_range = <<"yesterday">> -> SomeInterval(Today - 1, Today - 1)
      [] date_range = <<"tomorrow">> -> SomeInterval(Today + 1, Today + 1)
      [] date_range = <<"this_week">> -> get_week_range(Today)
      [] date_range = <<"this_month">> -> get_month_range(Today)
      [] date_range = <<"last_week">> -> get_week_range(Today - 7)
      [] OTHER -> NoInterval

\* the condition apply_date_filter_to_query adds for the date fields of an order, as a
\* test on a row: some field lies in the interval. Of eta_date and etd_date the table
\* holds eta_date; the etd_date of its orders is null
DateFilterMatches(row, date_range) ==
    LET date_filter == get_date_range_filter(date_range)
    IN  \/ date_filter.none
        \/ (row.eta_date.i >= date_filter.start /\ row.eta_date.i <= date_filter.end)

-----------------------------------------------------------------------------
(* Concurrent calls of apply_filter_sort_range_for_query *)

MaxCalls == 2

Callers == 1..MaxCalls

NoArgs == [data |-> NoData, sort_by |-> <<>>, fallback_sort |-> <<>>, apply_range |-> TRUE]

NoResult == [state |-> "none", query |-> EmptyQuery, count_query |-> EmptyQuery]
RaisedResult == [state |-> "raised", query |-> EmptyQuery, count_query |-> EmptyQuery]
Returned(queries) == [state |-> "returned", query |-> queries[1], count_query |-> queries[2]]

\* a call that has not started; concurrent records that another call was between its
\* first and last line while this one took a step
NoCall == [pc |-> "idle", args |-> NoArgs, result |-> NoResult, concurrent |-> FALSE]

\* the parameters and local variables of one activation, before its first line
NewFrame(args) ==
    [data |-> args.data, sort_by |-> args.sort_by, fallback_sort |-> args.fallback_sort,
     apply_range |-> args.apply_range, query |-> EmptyQuery, count_query |-> EmptyQuery]

\* Frame with one set of variables for all activations, as module-level names would be
Frame_ModuleLevel(t) == 0

\* the frame that holds the parameters and local variables of call t: query, count_query,
\* data, filter_expr and the rest are names of the function, one set per activation
Frame(t) == t

\* what the call returns when no other call runs
AloneResult(args) ==
    IF ApplyRaises(args.data, args.sort_by, args.apply_range) THEN RaisedResult
    ELSE Returned(apply_filter_sort_range_for_query(
             EmptyQuery, EmptyQuery, args.data, args.sort_by, args.fallback_sort,
             args.apply_range))

InFlight(t) == calls[t].pc \notin {"idle", "done"}

OthersInFlight(t) == \E u \in Callers : u # t /\ InFlight(u)

\* the call record after a step to position next
Stepped(t, next) ==
    [calls[t] EXCEPT !.pc = next, !.concurrent = @ \/ OthersInFlight(t)]

-----------------------------------------------------------------------------
(* POST /orders: OrderDomainService.create_order inside TransactionalOperation *)

MaxRequests == 3

NoCreate == [pc |-> "idle", request |-> 0, exc |-> "", status |-> 0]

\* the session: log is the sequence of what was done on it, each entry tagged with the
\* request; stored the number of orders whose transaction was committed
NoSession == [log |-> <<>>, stored |-> 0]

SessionOp(op, request) == [op |-> op, request |-> request]

\* an event in the history of the bus: its type, the request that published it and the
\* length of the session log when it was published
Event(type, request, at) == [type |-> type, request |-> request, at |-> at]

\* CreateFlow with the event published before the order is created
CreateFlow_PublishFirst(step) ==
    CASE step = "validate" -> "publish_created"
      [] step = "publish_created" -> "create"
      [] step = "create" -> "flush"
      [] step = "flush" -> "exit"
      [] OTHER -> "done"

\* the order of the statements of create_order and of the async with block around it:
\* validate (line 44), create (56), flush (57), publish (60), return and __aexit__
CreateFlow(step) ==
    CASE step = "validate" -> "create"
      [] step = "create" -> "flush"
      [] step = "flush" -> "publish_created"
      [] step = "publish_created" -> "exit"
      [] OTHER -> "done"

\* InMemoryEventBus.publish: the event is appended to the history; exceptions of the
\* handlers are caught
publish(history, event) == Append(history, event)

\* the status create_order of the API answers for an exception
CreateStatus(exc) ==
    CASE exc = "" -> 201
      [] exc = "ValidationException" -> 400
      [] exc = "BusinessRuleException" -> 422
      [] OTHER -> 500

CallsIdle ==
    /\ calls = [t \in Callers |-> NoCall]
    /\ frames = [f \in 0..MaxCalls |-> NewFrame(NoArgs)]
    /\ stdout = 0
    /\ schema = ColumnType

CreateIdle == create = NoCreate /\ session = NoSession /\ events = <<>>

OthersIdle == CallsIdle /\ CreateIdle

-----------------------------------------------------------------------------
(* The handling of GET /orders *)

Idle ==
    /\ pc = "idle"
    /\ filter_raw = AbsentParam /\ sort_raw = AbsentParam /\ range_raw = AbsentParam
    /\ sort_by = <<>> /\ fallback_sort = <<>> /\ apply_range = TRUE
    /\ data = NoData
    /\ query = EmptyQuery /\ count_query = EmptyQuery
    /\ status = 0 /\ raised = "" /\ headers = NoHeader
    /\ rows = <<>> /\ total_count = 0
    /\ OthersIdle

Init ==
    /\ Idle
    /\ db \in {Table(n) : n \in 0..MaxRows}

\* a request arrives with its query parameters
Request ==
    /\ pc = "idle"
    /\ filter_raw' \in FilterRaws
    /\ sort_raw' \in SortRaws
    /\ range_raw' \in RangeRaws
    /\ pc' = "parse"
    /\ UNCHANGED <<sort_by, fallback_sort, apply_range, data, query, count_query, status,
                   raised, headers, db, rows, total_count>>
    /\ UNCHANGED others

\* CollectionQueryParams.__init__ as the dependency of the endpoint
ParseParams ==
    /\ pc = "parse"
    /\ LET st == ParsedStatus(filter_raw, sort_raw, range_raw)
       IN  IF st = 0
           THEN /\ data' = dict_data(filter_raw, sort_raw, range_raw)
                /\ pc' = "compile"
                /\ UNCHANGED <<status, raised>>
           ELSE /\ status' = st
                /\ raised' = "params"
                /\ pc' = "done"
                /\ UNCHANGED data
    /\ UNCHANGED <<filter_raw, sort_raw, range_raw, sort_by, fallback_sort, apply_range,
                   query, count_query, headers, db, rows, total_count>>
    /\ UNCHANGED others

\* OrderRepository.get_orders_with_query_params up to the call of
\* apply_filter_sort_range_for_query; an exception becomes the 500 of get_orders
Compile ==
    /\ pc = "compile"
    /\ IF ApplyRaises(data, sort_by, apply_range)
       THEN /\ status' = 500
            /\ raised' = "compile"
            /\ pc' = "done"
            /\ UNCHANGED <<query, count_query>>
       ELSE /\ query' = apply_filter_sort_range_for_query(
                            EmptyQuery, EmptyQuery, data, sort_by, fallback_sort, apply_range)[1]
            /\ count_query' = apply_filter_sort_range_for_query(
                            EmptyQuery, EmptyQuery, data, sort_by, fallback_sort, apply_range)[2]
            /\ pc' = "execute"
            /\ UNCHANGED <<status, raised>>
    /\ data' = DataAfterApply(data)
    /\ UNCHANGED <<filter_raw, sort_raw, range_raw, sort_by, fallback_sort, apply_range,
                   headers, db, rows, total_count>>
    /\ UNCHANGED others

\* the two queries are executed and get_orders sets the Content-Range header
Execute ==
    /\ pc \in {"execute", "recompiled"}
    /\ IF ExecuteFails(query) \/ ExecuteFails(count_query)
       THEN /\ status' = 500
            /\ raised' = "execute"
            /\ UNCHANGED <<rows, total_count, headers>>
       ELSE /\ rows' = Paginate(query, OrderRows(query.order_by, Matching(query, db)))
            /\ total_count' = Len(Matching(count_query, db))
            /\ headers' = ContentRangeHeader(data, Len(Matching(count_query, db)))
            /\ status' = 200
            /\ UNCHANGED raised
    /\ pc' = "done"
    /\ UNCHANGED <<filter_raw, sort_raw, range_raw, sort_by, fallback_sort, apply_range,
                   data, query, count_query, db>>
    /\ UNCHANGED others

Next == Request \/ ParseParams \/ Compile \/ Execute

Spec == Init /\ [][Next]_vars

-----------------------------------------------------------------------------
(* The filter engine on its own: one decoded filter entry is compiled and run *)

FilterNames == Columns \cup NonColumnAttrs \cup {Unknown}

OperatorTokens == {"gt", "gte", "lt", "lte", "eq", "ne", "in", "nin"}
OtherTokens == {"like", "GT"}
GroupTokens == {"gte", "nin", "like"}

FilterKeys ==
    {<<f>> : f \in FilterNames}
    \cup {<<f, ":">> : f \in FilterNames}
    \cup {<<f, ":", op>> : f \in FilterNames, op \in OperatorTokens \cup OtherTokens}
    \cup {<<f, ":", op, ":", op>> : f \in {"pallets", "reference"}, op \in {"gte"}}
    \cup {<<a, "|", b>> : a \in FilterNames, b \in FilterNames}
    \cup {<<a, "|", b, ":", op>> : a \in FilterNames, b \in FilterNames, op \in GroupTokens}

FilterValues ==
    {None, IntV(2), BoolV(TRUE), StrV(<<"t">>), StrV(<<"R", "_", "c">>),
     ListV(<<IntV(1), IntV(3)>>), ListV(<<StrV(<<"T", "1">>)>>)}

InitFilter ==
    /\ pc = "compile"
    /\ filter_raw = AbsentParam /\ sort_raw = AbsentParam /\ range_raw = AbsentParam
    /\ sort_by = <<>> /\ fallback_sort = <<>> /\ apply_range = TRUE
    /\ \E key \in FilterKeys, value \in FilterValues :
           data = [NoData EXCEPT !.filter = SomeFilter(<< <<key, value>> >>)]
    /\ query = EmptyQuery /\ count_query = EmptyQuery
    /\ status = 0 /\ raised = "" /\ headers = NoHeader
    /\ db = Table(MaxRows)
    /\ rows = <<>> /\ total_count = 0
    /\ OthersIdle

NextFilter == Compile \/ Execute

SpecFilter == InitFilter /\ [][NextFilter]_vars

-----------------------------------------------------------------------------
(* The assembler on its own for a range, and generate_range for any total *)

RangeInputs ==
    {NoRange} \cup {SomeRange(IntV(a), IntV(b)) : a \in 0..MaxStart, b \in (0 - 1)..MaxEnd}

InitRange ==
    /\ pc = "compile"
    /\ filter_raw = AbsentParam /\ sort_raw = AbsentParam /\ range_raw = AbsentParam
    /\ sort_by = <<>> /\ fallback_sort = <<>>
    /\ apply_range \in BOOLEAN
    /\ \E r \in RangeInputs : data = [NoData EXCEPT !.range = r]
    /\ query = EmptyQuery /\ count_query = EmptyQuery
    /\ status = 0 /\ raised = "" /\ headers = NoHeader
    /\ db \in {Table(n) : n \in 0..MaxRows}
    /\ rows = <<>> /\ total_count = 0
    /\ OthersIdle

\* generate_range called on the range and a total
GenerateRange ==
    /\ pc = "compile"
    /\ \E total \in 0..MaxRows :
           /\ total_count' = total
           /\ headers' = SomeHeader(generate_range(data.range, total))
    /\ pc' = "formatted"
    /\ UNCHANGED <<filter_raw, sort_raw, range_raw, sort_by, fallback_sort, apply_range,
                   data, query, count_query, status, raised, db, rows>>
    /\ UNCHANGED others

NextRange == Compile \/ Execute \/ GenerateRange

SpecRange == InitRange /\ [][NextRange]_vars

-----------------------------------------------------------------------------
(* The filter engine on a filter map of several keys, with the global search term and an
   excluded key; the map is compiled, compiled again and run *)

MapFirstKeys ==
    {<<f>> : f \in FilterNames}
    \cup {<<"pallets", ":", "gte">>, <<"reference", ":", "ne">>,
          <<"pallets", ":", "gte", ":", "gte">>, <<"reference", ":", "gte", ":", "gte">>,
          <<"reference", "|", "pallets">>, <<"reference", "|", Unknown>>,
          <<Unknown, "|", Unknown>>, <<"id", "|", "service", ":", "nin">>}

MapFirstValues == {None, IntV(2), StrV(<<"t">>), ListV(<<IntV(1), IntV(3)>>)}

MapSecondKeys ==
    {<<"reference">>, <<"pallets", ":", "lte">>, <<"priority">>, <<"eta_date">>, <<Unknown>>}

MapSecondValues == {None, IntV(2), BoolV(TRUE)}

\* values of the "_query" key
QueryTerms == {None, StrV(<<>>), StrV(<<"t">>), StrV(<<"3">>)}

\* the sequences of at most one element of a set
Optionally(S) == {<<>>} \cup {<<x>> : x \in S}

\* decoded filter maps: an excluded key, a first key, "_query" and a second key, each
\* of them present or not
FilterMaps ==
    {excl \o first \o term \o second :
        excl \in Optionally({<<(<<"is_search_in_docs">>), BoolV(TRUE)>>}),
        first \in Optionally(MapFirstKeys \X MapFirstValues),
        term \in Optionally({<<"_query">>} \X QueryTerms),
        second \in Optionally(MapSecondKeys \X MapSecondValues)}

DistinctKeys(m) == \A i, j \in 1..Len(m) : m[i][1] = m[j][1] => i = j

InitMap ==
    /\ pc = "compile"
    /\ filter_raw = AbsentParam /\ sort_raw = AbsentParam /\ range_raw = AbsentParam
    /\ sort_by = <<>> /\ fallback_sort = <<>> /\ apply_range = TRUE
    /\ \E m \in FilterMaps :
           /\ DistinctKeys(m)
           /\ data = [NoData EXCEPT !.filter = SomeFilter(m)]
    /\ query = EmptyQuery /\ count_query = EmptyQuery
    /\ status = 0 /\ raised = "" /\ headers = NoHeader
    /\ db = Table(MaxRows)
    /\ rows = <<>> /\ total_count = 0
    /\ OthersIdle

\* a second call of apply_filter_sort_range_for_query with fresh select() statements and
\* the data the caller still holds
Recompile ==
    /\ pc = "execute"
    /\ ~ApplyRaises(data, sort_by, apply_range)
    /\ query' = apply_filter_sort_range_for_query(
                    EmptyQuery, EmptyQuery, data, sort_by, fallback_sort, apply_range)[1]
    /\ count_query' = apply_filter_sort_range_for_query(
                    EmptyQuery, EmptyQuery, data, sort_by, fallback_sort, apply_range)[2]
    /\ data' = DataAfterApply(data)
    /\ pc' = "recompiled"
    /\ UNCHANGED <<filter_raw, sort_raw, range_raw, sort_by, fallback_sort, apply_range,
                   status, raised, headers, db, rows, total_count>>
    /\ UNCHANGED others

NextMap == Compile \/ Recompile \/ Execute

SpecMap == InitMap /\ [][NextMap]_vars

-----------------------------------------------------------------------------
(* The assembler on its own for the three ordering sources, with a filter and a range *)

SortByInputs ==
    {<<>>, <<OrderExpr("pallets", "desc")>>,
     <<OrderExpr("priority", "desc"), OrderExpr("reference", "asc")>>}

FallbackSortInputs == {<<>>, <<OrderExpr("id", "asc")>>}

SortInputs ==
    {NoSort, SomeSort(<<>>),
     SomeSort(<<StrV(<<"reference">>), ORDER_ASC>>),
     SomeSort(<<StrV(<<"id">>), ORDER_DESC>>),
     SomeSort(<<StrV(<<"pallets">>), None>>),
     SomeSort(<<StrV(<<Unknown>>), ORDER_ASC>>)}

SortFilterInputs ==
    {NoFilter, SomeFilter(<<>>),
     SomeFilter(<< <<(<<"reference">>), StrV(<<"t">>)>> >>),
     SomeFilter(<< <<(<<"pallets", ":", "gte">>), IntV(2)>>, <<(<<"_query">>), StrV(<<"x">>)>> >>)}

SortRangeInputs ==
    {NoRange, SomeRange(IntV(0), IntV(0)), SomeRange(IntV(1), IntV(2)),
     SomeRange(IntV(0), IntV(0 - 1))}

InitSort ==
    /\ pc = "compile"
    /\ filter_raw = AbsentParam /\ sort_raw = AbsentParam /\ range_raw = AbsentParam
    /\ sort_by \in SortByInputs
    /\ fallback_sort \in FallbackSortInputs
    /\ apply_range \in BOOLEAN
    /\ \E f \in SortFilterInputs, s \in SortInputs, r \in SortRangeInputs :
           data = [filter |-> f, sort |-> s, range |-> r]
    /\ query = EmptyQuery /\ count_query = EmptyQuery
    /\ status = 0 /\ raised = "" /\ headers = NoHeader
    /\ db \in {Table(n) : n \in {0, MaxRows}}
    /\ rows = <<>> /\ total_count = 0
    /\ OthersIdle

NextSort == Compile \/ Execute

SpecSort == InitSort /\ [][NextSort]_vars

-----------------------------------------------------------------------------
(* Calls of apply_filter_sort_range_for_query that run concurrently, each taking its
   statements one block at a time *)

GetOrdersUnchanged ==
    UNCHANGED <<pc, filter_raw, sort_raw, range_raw, sort_by, fallback_sort, apply_range,
                data, query, count_query, status, raised, headers, db, rows, total_count>>

\* a step of a call leaves the rest as it is
CallFrame == GetOrdersUnchanged /\ UNCHANGED <<create, session, events>>

CallInputs ==
    {[data |-> [filter |-> SomeFilter(<< <<(<<"reference">>), StrV(<<"t">>)>> >>),
                sort |-> SomeSort(<<StrV(<<"reference">>), ORDER_ASC>>),
                range |-> SomeRange(IntV(1), IntV(2))],
      sort_by |-> <<>>, fallback_sort |-> <<>>, apply_range |-> TRUE],
     [data |-> [filter |-> SomeFilter(<< <<(<<"pallets", ":", "gte">>), IntV(2)>>,
                                         <<(<<"_query">>), StrV(<<"x">>)>> >>),
                sort |-> NoSort, range |-> SomeRange(IntV(0), IntV(0))],
      sort_by |-> <<OrderExpr("pallets", "desc")>>, fallback_sort |-> <<>>,
      apply_range |-> FALSE],
     [data |-> NoData, sort_by |-> <<>>, fallback_sort |-> <<OrderExpr("id", "asc")>>,
      apply_range |-> TRUE],
     [data |-> [NoData EXCEPT !.sort = SomeSort(<<StrV(<<Unknown>>), ORDER_DESC>>)],
      sort_by |-> <<>>, fallback_sort |-> <<>>, apply_range |-> TRUE],
     [data |-> [NoData EXCEPT !.filter = SomeFilter(<< <<(<<"convert_to_lower">>), StrV(<<"t">>)>> >>)],
      sort_by |-> <<>>, fallback_sort |-> <<>>, apply_range |-> TRUE]}

\* the call starts: its arguments are bound in its frame
CallEnter(t) ==
    /\ calls[t].pc = "idle"
    /\ \E args \in CallInputs :
           /\ calls' = [calls EXCEPT ![t] = [Stepped(t, "filter") EXCEPT !.args = args]]
           /\ frames' = [frames EXCEPT ![Frame(t)] = NewFrame(args)]
    /\ UNCHANGED <<stdout, schema>>
    /\ CallFrame

\* lines 240-247: the filter on both queries
CallFilter(t) ==
    /\ calls[t].pc = "filter"
    /\ LET f == frames[Frame(t)]
       IN  IF FilterRaises(f.data)
           THEN /\ calls' = [calls EXCEPT ![t] = [Stepped(t, "done") EXCEPT !.result = RaisedResult]]
                /\ frames' = [frames EXCEPT ![Frame(t)].data = DataAfterApply(f.data)]
                /\ UNCHANGED stdout
           ELSE /\ calls' = [calls EXCEPT ![t] = Stepped(t, "sort")]
                /\ frames' = [frames EXCEPT ![Frame(t)] =
                                 [f EXCEPT !.query = ApplyFilter(f.query, f.data),
                                           !.count_query = ApplyFilter(f.count_query, f.data),
                                           !.data = DataAfterApply(f.data)]]
                /\ stdout' = stdout + 1
    /\ UNCHANGED schema
    /\ CallFrame

\* lines 249-257: the ordering of the data query
CallSort(t) ==
    /\ calls[t].pc = "sort"
    /\ LET f == frames[Frame(t)]
       IN  IF SortRaises(f.data, f.sort_by)
           THEN /\ calls' = [calls EXCEPT ![t] = [Stepped(t, "done") EXCEPT !.result = RaisedResult]]
                /\ UNCHANGED <<frames, stdout>>
           ELSE /\ calls' = [calls EXCEPT ![t] = Stepped(t, "range")]
                /\ frames' = [frames EXCEPT ![Frame(t)].query =
                                 ApplySort(f.query, f.data, f.sort_by, f.fallback_sort)]
                /\ stdout' = stdout + 1
    /\ UNCHANGED schema
    /\ CallFrame

\* lines 259-263: offset and limit of the data query
CallRange(t) ==
    /\ calls[t].pc = "range"
    /\ LET f == frames[Frame(t)]
       IN  IF RangeRaises(f.data, f.apply_range)
           THEN /\ calls' = [calls EXCEPT ![t] = [Stepped(t, "done") EXCEPT !.result = RaisedResult]]
                /\ UNCHANGED <<frames, stdout>>
           ELSE /\ calls' = [calls EXCEPT ![t] = Stepped(t, "return")]
                /\ frames' = [frames EXCEPT ![Frame(t)].query =
                                 ApplyRange(f.query, f.data, f.apply_range)]
                /\ stdout' = stdout + 1
    /\ UNCHANGED schema
    /\ CallFrame

\* lines 265-267: the two queries are printed and returned
CallReturn(t) ==
    /\ calls[t].pc = "return"
    /\ LET f == frames[Frame(t)]
       IN  calls' = [calls EXCEPT ![t] =
                        [Stepped(t, "done") EXCEPT !.result = Returned(<<f.query, f.count_query>>)]]
    /\ stdout' = stdout + 1
    /\ UNCHANGED <<frames, schema>>
    /\ CallFrame

InitCalls == Idle /\ db = Table(0)

NextCalls ==
    \E t \in Callers :
        CallEnter(t) \/ CallFilter(t) \/ CallSort(t) \/ CallRange(t) \/ CallReturn(t)

SpecCalls == InitCalls /\ [][NextCalls]_vars

-----------------------------------------------------------------------------
(* Requests POST /orders, one after the other *)

\* a step of POST /orders leaves the rest as it is
CreateFrame == GetOrdersUnchanged /\ UNCHANGED <<calls, frames, stdout, schema>>

\* a request arrives; async with transactional_uow enters and create_order is called
CreateRequest ==
    /\ create.pc \in {"idle", "done"}
    /\ create.request < MaxRequests
    /\ create' = [pc |-> "validate", request |-> create.request + 1, exc |-> "", status |-> 0]
    /\ UNCHANGED <<session, events>>
    /\ CreateFrame

\* validator.validate_order_creation (line 44): no errors, errors, or it raises
CreateValidate ==
    /\ create.pc = "validate"
    /\ \E outcome \in {"valid", "errors", "raise"} :
           create' = CASE outcome = "valid" -> [create EXCEPT !.pc = CreateFlow("validate")]
                       [] outcome = "errors" -> [create EXCEPT !.pc = "publish_failed"]
                       [] OTHER -> [create EXCEPT !.pc = "exit", !.exc = "Exception"]
    /\ UNCHANGED <<session, events>>
    /\ CreateFrame

\* lines 47-53: OrderValidationFailedEvent, then ValidationException
CreatePublishFailed ==
    /\ create.pc = "publish_failed"
    /\ events' = publish(events, Event("OrderValidationFailedEvent", create.request, Len(session.log)))
    /\ create' = [create EXCEPT !.pc = "exit", !.exc = "ValidationException"]
    /\ UNCHANGED session
    /\ CreateFrame

\* line 56: uow.orders.create adds the order and flushes, or raises
CreateOrder ==
    /\ create.pc = "create"
    /\ \/ /\ session' = [session EXCEPT !.log = Append(@, SessionOp("create", create.request))]
          /\ create' = [create EXCEPT !.pc = CreateFlow("create")]
       \/ /\ create' = [create EXCEPT !.pc = "exit", !.exc = "Exception"]
          /\ UNCHANGED session
    /\ UNCHANGED events
    /\ CreateFrame

\* line 57: uow.flush, or it raises
CreateFlush ==
    /\ create.pc = "flush"
    /\ \/ /\ session' = [session EXCEPT !.log = Append(@, SessionOp("flush", create.request))]
          /\ create' = [create EXCEPT !.pc = CreateFlow("flush")]
       \/ /\ create' = [create EXCEPT !.pc = "exit", !.exc = "Exception"]
          /\ UNCHANGED session
    /\ UNCHANGED events
    /\ CreateFrame

\* lines 60-68: OrderCreatedEvent, then the order is returned
CreatePublishCreated ==
    /\ create.pc = "publish_created"
    /\ events' = publish(events, Event("OrderCreatedEvent", create.request, Len(session.log)))
    /\ create' = [create EXCEPT !.pc = CreateFlow("publish_created")]
    /\ UNCHANGED session
    /\ CreateFrame

\* TransactionalOperation.__aexit__: rollback on an exception, else commit, which may
\* fail; then the except clauses of the endpoint choose the status
CreateExit ==
    /\ create.pc = "exit"
    /\ IF create.exc # ""
       THEN /\ session' = [session EXCEPT !.log = Append(@, SessionOp("rollback", create.request))]
            /\ create' = [create EXCEPT !.pc = "done", !.status = CreateStatus(create.exc)]
       ELSE \/ /\ session' = [log |-> Append(session.log, SessionOp("commit", create.request)),
                              stored |-> session.stored + 1]
               /\ create' = [create EXCEPT !.pc = "done", !.status = CreateStatus("")]
            \/ /\ session' = [session EXCEPT !.log = Append(@, SessionOp("commit_failed", create.request))]
               /\ create' = [create EXCEPT !.pc = "done", !.exc = "Exception",
                                           !.status = CreateStatus("Exception")]
    /\ UNCHANGED events
    /\ CreateFrame

InitCreate == Idle /\ db = Table(0)

NextCreate ==
    \/ CreateRequest \/ CreateValidate \/ CreatePublishFailed \/ CreateOrder
    \/ CreateFlush \/ CreatePublishCreated \/ CreateExit

SpecCreate == InitCreate /\ [][NextCreate]_vars

-----------------------------------------------------------------------------
(* Properties *)

\* the kind of each field in the terms of the specification's schema descriptor
FieldKind ==
    [id |-> "text", reference |-> "text", service |-> "enumerated", eta_date |-> "temporal",
     eta_time |-> "temporal", pallets |-> "numeric", kilos |-> "numeric", priority |-> "boolean"]

ComparedKinds == {"numeric", "temporal", "boolean"}

\* the comparison each operator token stands for
SqlComparison == [gt |-> ">", gte |-> ">=", lt |-> "<", lte |-> "<=", eq |-> "=", ne |-> "!="]

\* one decoded filter entry has gone through the assembler
SingleEntry == ~data.filter.none /\ Len(data.filter.map) = 1
TheKey == data.filter.map[1][1]
TheValue == data.filter.map[1][2]
Assembled == pc \in {"execute", "done"} /\ raised # "params"
ScalarValue == TheValue # None /\ TheValue.t # "list"

\* the key names the one field f, with any operator part
KeyOfField(f) ==
    \/ TheKey = <<f>>
    \/ TheKey = <<f, ":">>
    \/ Len(TheKey) = 3 /\ TheKey[1] = f /\ TheKey[2] = ":"

\* C1: for a numeric, temporal or boolean field, a scalar value and an operator among
\* gt, gte, lt, lte, eq, ne, the compiled predicate is that comparison on the field
\* and never a substring match.
C1_ComparisonForComparedKinds ==
    \A f \in Columns, op \in DOMAIN SqlComparison :
        (/\ SingleEntry /\ Assembled /\ ScalarValue
         /\ FieldKind[f] \in ComparedKinds
         /\ TheKey = <<f, ":", op>>)
        => query.where = <<Leaf(SqlComparison[op], f, TheValue)>>

\* C2: a sort request whose direction is ASC or DESC and whose field is not in the
\* sortable whitelist is answered successfully and puts no ordering on the data query.
C2_UnlistedSortFieldIsNoSort ==
    (/\ pc = "done"
     /\ filter_raw = AbsentParam /\ range_raw = AbsentParam
     /\ sort_raw.kind = "json" /\ Len(sort_raw.items) = 2
     /\ sort_raw.items[1].t = "str" /\ sort_raw.items[1].s \notin SortFields
     /\ sort_raw.items[2] \in {ORDER_ASC, ORDER_DESC})
    => status = 200 /\ query.order_by = <<>>

\* C3: a sort request whose direction is neither "ASC" nor "DESC" is rejected with 422
\* whatever the field, and no query is compiled or executed for it.
C3_BadDirectionIs422 ==
    (/\ pc # "parse" /\ pc # "idle"
     /\ filter_raw = AbsentParam
     /\ sort_raw.kind = "json" /\ Len(sort_raw.items) = 2
     /\ sort_raw.items[2] \notin {ORDER_ASC, ORDER_DESC})
    => pc = "done" /\ status = 422 /\ query = EmptyQuery /\ count_query = EmptyQuery

\* C4: when the range is absent the data query gets no offset and no limit; with
\* end >= 0 it gets offset = start and limit = end - start + 1, as with_range gives, and
\* at most that many rows are returned; with end < 0 it gets none. The count query
\* never gets any. (apply_range is the default True; with False nothing is applied.)
C4_RangeTranslation ==
    (pc \in {"execute", "done"})
    => /\ count_query.offset = NoInt /\ count_query.limit = NoInt
       /\ (~apply_range \/ data.range.none) => (query.offset = NoInt /\ query.limit = NoInt)
       /\ (apply_range /\ ~data.range.none /\ data.range.end.i >= 0)
          => /\ query.offset = SomeInt(data.range.start.i)
             /\ query.limit = SomeInt(data.range.end.i - data.range.start.i + 1)
             /\ query = with_range(EmptyQuery, <<data.range.start.i, data.range.end.i>>)
             /\ status = 200 => Len(rows) <= data.range.end.i - data.range.start.i + 1
       /\ (apply_range /\ ~data.range.none /\ data.range.end.i < 0)
          => /\ query.offset = NoInt /\ query.limit = NoInt
             /\ query = with_range(EmptyQuery, <<data.range.start.i, data.range.end.i>>)

C4_Witness ==
    /\ pc = "done" /\ status = 200 /\ apply_range
    /\ data.range = SomeRange(IntV(1), IntV(2))
    /\ query.offset = SomeInt(1) /\ query.limit = SomeInt(2)
    /\ Len(db) = 3 /\ Len(rows) = 2

\* C5: a request with range [start, end], end < 0, is accepted by range parsing and
\* answered with all matching rows, never with a validation error.
C5_NegativeEndIsOptOut ==
    (/\ pc = "done"
     /\ filter_raw = AbsentParam /\ sort_raw = AbsentParam
     /\ range_raw.kind = "json" /\ Len(range_raw.items) = 2
     /\ range_raw.items[1].t = "int" /\ range_raw.items[1].i >= 0
     /\ range_raw.items[2].t = "int" /\ range_raw.items[2].i < 0)
    => status = 200 /\ rows = db

\* decimal digits of a number between -9 and 9
Dec(n) == IF n < 0 THEN <<"-", Digit[(0 - n) + 1]>> ELSE <<Digit[n + 1]>>

\* C6: generate_range gives "0-{total}/{total}" for an absent range and otherwise
\* "{start}-{end}/{total}" with start and end as requested, end never clamped to the total.
C6_ContentRangeVerbatim ==
    (pc = "formatted")
    => /\ headers.set
       /\ headers.value =
             IF data.range.none
             THEN <<"0", "-">> \o Dec(total_count) \o <<"/">> \o Dec(total_count)
             ELSE Dec(data.range.start.i) \o <<"-">> \o Dec(data.range.end.i)
                  \o <<"/">> \o Dec(total_count)

C6_Witness ==
    /\ pc = "formatted"
    /\ data.range = SomeRange(IntV(1), IntV(3))
    /\ total_count = 2
    /\ headers.value = <<"1", "-", "3", "/", "2">>

\* C7: for a text field and a scalar value the compiled predicate is the
\* case-insensitive substring match field ILIKE '%v%' whatever the operator token;
\* only a list value changes it, to set membership.
C7_TextMatchesBySubstring ==
    \A f \in Columns :
        (/\ SingleEntry /\ Assembled /\ TheValue # None
         /\ FieldKind[f] = "text" /\ KeyOfField(f))
        => /\ raised # "compile"
           /\ count_query.where = query.where
           /\ IF TheValue.t = "list"
              THEN Len(query.where) = 1 /\ query.where[1].op \in {"in", "notin"}
              ELSE query.where = <<Leaf("ilike", f, StrV(<<"%">> \o PyStr(TheValue) \o <<"%">>))>>

C7_Witness ==
    /\ SingleEntry /\ pc = "done" /\ status = 200
    /\ TheKey = <<"reference", ":", "gte">> /\ TheValue = StrV(<<"t">>)
    /\ query.where = <<Leaf("ilike", "reference", StrV(<<"%", "t", "%">>))>>
    /\ Len(rows) = 2

\* C8: for a list value the predicate is NOT IN iff the operator token is nin and IN
\* for every other token, absent and unknown ones included, whatever the kind of the field.
C8_ListIsMembership ==
    \A f \in Columns :
        (/\ SingleEntry /\ Assembled /\ TheValue.t = "list" /\ KeyOfField(f))
        => /\ raised # "compile"
           /\ query.where =
                 <<Leaf(IF TheKey = <<f, ":", "nin">> THEN "notin" ELSE "in", f, TheValue)>>

C8_Witness ==
    /\ SingleEntry /\ pc = "done" /\ status = 200
    /\ TheKey = <<"pallets", ":", "nin">> /\ TheValue = ListV(<<IntV(1), IntV(3)>>)
    /\ query.where[1].op = "notin"
    /\ Len(rows) >= 1 /\ rows[1] = Row(2)

\* the predicate the single key of field x compiles to, with the operator part of the
\* group key and its value
SingleOf(x) ==
    get_filter_expression(<< <<(<<x>> \o SubSeq(TheKey, 4, Len(TheKey))), TheValue>> >>)

\* C9: an OR-group key "a|b" of two known fields with a scalar value compiles to the OR
\* of what the keys "a" and "b" compile to with the same value and operator, so a row
\* satisfies it iff it satisfies one of them; a group with one known field compiles to
\* that field's predicate without OR; a UUID field is matched as text.
C9_OrGroupIsOrOfSingles ==
    \A a \in Columns \cup {Unknown}, b \in Columns \cup {Unknown} :
        (/\ SingleEntry /\ Assembled /\ ScalarValue
         /\ Len(TheKey) \in {3, 5} /\ SubSeq(TheKey, 1, 3) = <<a, "|", b>>
         /\ (a \in Columns \/ b \in Columns))
        => /\ raised # "compile"
           /\ (a \in Columns /\ b \in Columns)
              => /\ query.where = <<[op |-> "or", col |-> "", val |-> None,
                                     args |-> <<SingleOf(a), SingleOf(b)>>]>>
                 /\ \A k \in 1..Len(db) :
                        Eval(query.where[1], db[k])
                            <=> (Eval(SingleOf(a), db[k]) \/ Eval(SingleOf(b), db[k]))
           /\ (a \in Columns /\ b = Unknown) => query.where = <<SingleOf(a)>>
           /\ (a = Unknown /\ b \in Columns) => query.where = <<SingleOf(b)>>
           /\ (a = "id") => SingleOf(a).op = "ilike"

C9_Witness ==
    /\ SingleEntry /\ pc = "done" /\ status = 200
    /\ TheKey = <<"id", "|", "reference">> /\ TheValue = StrV(<<"t">>)
    /\ query.where = <<[op |-> "or", col |-> "", val |-> None,
                        args |-> <<Leaf("ilike", "id", StrV(<<"%", "t", "%">>)),
                                   Leaf("ilike", "reference", StrV(<<"%", "t", "%">>))>>]>>
    /\ Len(rows) = 2

\* C10: for a field f, a value and an operator token that is not a known operator, the
\* key "f:op" compiles to the same predicate as the key "f": equality for numeric,
\* temporal and boolean fields, substring for text, IN for lists; no error is raised.
C10_UnknownOperatorIsDefault ==
    \A f \in Columns, op \in OtherTokens :
        (/\ SingleEntry /\ Assembled /\ TheValue # None
         /\ TheKey = <<f, ":", op>>)
        => /\ raised # "compile"
           /\ query.where = <<get_filter_expression(<< <<(<<f>>), TheValue>> >>)>>
           /\ TheValue.t = "list" => query.where[1].op = "in"
           /\ (TheValue.t # "list" /\ FieldKind[f] \in ComparedKinds) => query.where[1].op = "="
           /\ (TheValue.t # "list" /\ FieldKind[f] = "text") => query.where[1].op = "ilike"

-----------------------------------------------------------------------------
(* Properties of a filter map of several keys *)

\* apply_filter_sort_range_for_query has returned the two queries
Compiled == pc \in {"execute", "recompiled", "done"} /\ raised \notin {"params", "compile"}

TheMap == data.filter.map

\* the value of "_query" in the map, None when the key is absent
TheTerm == DictGet(TheMap, <<"_query">>)

\* the entries of the explicit filter: neither "_query" nor an excluded key
ExplicitEntries(m) ==
    SelectSeq(m, LAMBDA e : e[1] \notin ExcludeFilterKeys \cup {<<"_query">>})

WithoutQuery(m) == SelectSeq(m, LAMBDA e : e[1] # <<"_query">>)

\* the clause one entry emits when it is the whole map; NoExpr when it emits none
KeyClause(e) == get_filter_expression(<<e>>)

\* the clauses the keys of the map emit, in the order of the keys
EmittedClauses(m) ==
    SelectSeq([k \in 1..Len(ExplicitEntries(m)) |-> KeyClause(ExplicitEntries(m)[k])],
              LAMBDA c : c # NoExpr)

\* the where clauses that hold the conjunction of the given clauses
Conjunction(clauses) ==
    IF clauses = <<>> THEN <<>>
    ELSE IF Len(clauses) = 1 THEN <<clauses[1]>>
    ELSE <<[op |-> "and", col |-> "", val |-> None, args |-> clauses]>>

IsLeaf(e) == e.op \notin {"and", "or"} /\ e.args = <<>>
IsOrGroup(e) == IsLeaf(e) \/ (e.op = "or" /\ \A k \in 1..Len(e.args) : IsLeaf(e.args[k]))
WellNested(e) == IsOrGroup(e) \/ (e.op = "and" /\ \A k \in 1..Len(e.args) : IsOrGroup(e.args[k]))

Satisfies(row, where) == \A k \in 1..Len(where) : Eval(where[k], row)

\* C11: the compiled predicate is the AND of the clauses the keys of the map emit, in
\* the order of the keys: without a global term the where clause is exactly that
\* conjunction and a row satisfies it iff it satisfies the clause of every emitting key;
\* with a global term those clauses are still all required; the only nesting is AND
\* over OR groups of single-field predicates.
C11_AndOfKeyClauses ==
    Compiled
    => /\ count_query.where = query.where
       /\ \A k \in 1..Len(query.where) : WellNested(query.where[k])
       /\ TheTerm = None
          => /\ query.where = Conjunction(EmittedClauses(TheMap))
             /\ \A r \in 1..Len(db) :
                    Satisfies(db[r], query.where)
                        <=> \A k \in 1..Len(EmittedClauses(TheMap)) :
                                Eval(EmittedClauses(TheMap)[k], db[r])
       /\ TheTerm # None
          => \A r \in 1..Len(db) :
                 Satisfies(db[r], query.where)
                     => \A k \in 1..Len(EmittedClauses(TheMap)) :
                            Eval(EmittedClauses(TheMap)[k], db[r])

C11_Witness ==
    /\ pc = "done" /\ status = 200
    /\ TheMap = << <<(<<"reference">>), StrV(<<"t">>)>>, <<(<<"pallets", ":", "lte">>), IntV(2)>> >>
    /\ query.where = <<[op |-> "and", col |-> "", val |-> None,
                        args |-> <<Leaf("ilike", "reference", StrV(<<"%", "t", "%">>)),
                                   Leaf("<=", "pallets", IntV(2))>>]>>
    /\ Len(rows) = 1 /\ rows[1] = Row(1)

RECURSIVE Join(_, _)
\* sep.join(parts) on token sequences
Join(parts, sep) ==
    IF parts = <<>> THEN <<>>
    ELSE IF Len(parts) = 1 THEN parts[1]
    ELSE parts[1] \o <<sep>> \o Join(Tail(parts), sep)

\* the field path of a key and the rest of the key from its first ":" on
FieldPath(key) == Split(key, ":")[1]
OperatorPart(key) == SubSeq(key, Len(FieldPath(key)) + 1, Len(key))

\* the names of the field path that are fields of the entity
FieldsOf(key) == SelectSeq(Split(FieldPath(key), "|"), LAMBDA n : Len(n) = 1 /\ n[1] \in Columns)

\* the key with the names that are not fields of the entity taken out of its field path
WithoutNonFields(key) == Join(FieldsOf(key), "|") \o OperatorPart(key)

\* C12: names in a filter key that are not fields of the entity are dropped from the OR
\* group and the remaining fields form the clause; a key with no field left emits no
\* predicate and raises no error; if no key emits a predicate the data and count queries
\* get no filter.
C12_NonFieldNamesAreDropped ==
    (pc \in {"execute", "recompiled", "done"} /\ TheTerm = None)
    => /\ raised # "compile"
       /\ \A k \in 1..Len(ExplicitEntries(TheMap)) :
              LET e == ExplicitEntries(TheMap)[k]
              IN  (e[2] # None /\ Len(Split(e[1], ":")) <= 2)
                  => KeyClause(e) = IF FieldsOf(e[1]) = <<>> THEN NoExpr
                                    ELSE KeyClause(<<WithoutNonFields(e[1]), e[2]>>)
       /\ (\A k \in 1..Len(ExplicitEntries(TheMap)) : KeyClause(ExplicitEntries(TheMap)[k]) = NoExpr)
          => query.where = <<>> /\ count_query.where = <<>>

\* the per-field matches of the global search of the map
GlobalSearch(m) ==
    IF FilterObjects(m).global_filter_query = None THEN <<>>
    ELSE Concat([k \in 1..Len(FilterObjects(m).filters) |->
                    KeyQueryFilters(FilterObjects(m).filters[k][1],
                                    FilterObjects(m).global_filter_query)])

\* the where clause ends with the global search predicate
EndsWithGlobalSearch(where, m) ==
    /\ Len(where) = 1
    /\ LET g == GlobalSearch(m)
           tail == IF Len(g) = 1 THEN g ELSE <<[op |-> "or", col |-> "", val |-> None, args |-> g]>>
       IN  IF EmittedClauses(m) = <<>> THEN where = tail
           ELSE /\ where[1].op = "and"
                /\ where[1].args = EmittedClauses(m) \o tail

\* C13: with a global search term, the fields it is matched against are text or
\* enumerated fields named by an explicit filter key of the request; no numeric,
\* temporal or boolean field is among them and each is matched by ILIKE '%term%'.
C13_GlobalSearchOnTextFieldsOnly ==
    (Compiled /\ TheTerm # None /\ GlobalSearch(TheMap) # <<>>)
    => /\ EndsWithGlobalSearch(query.where, TheMap)
       /\ \A k \in 1..Len(GlobalSearch(TheMap)) :
              LET g == GlobalSearch(TheMap)[k]
              IN  /\ FieldKind[g.col] \in {"text", "enumerated"}
                  /\ \E j \in 1..Len(ExplicitEntries(TheMap)) :
                         FieldPath(ExplicitEntries(TheMap)[j][1]) = <<g.col>>
                  /\ g = Leaf("ilike", g.col, StrV(<<"%">> \o TheTerm.s \o <<"%">>))

\* the predicate of the map matches the row; no predicate matches every row
Matches(expr, row) == expr = NoExpr \/ Eval(expr, row)

\* C14: the global search predicate is the OR of its per-field matches, AND-combined
\* with the explicit filter; every row that matches the map with its _query term
\* matches the map with the term removed, and so do the rows returned.
C14_GlobalSearchNeverWidens ==
    (Compiled /\ TheTerm # None)
    => /\ get_filter_expression(WithoutQuery(TheMap)) # Raised
       /\ GlobalSearch(TheMap) # <<>> => EndsWithGlobalSearch(query.where, TheMap)
       /\ \A r \in 1..Len(db) :
              Satisfies(db[r], query.where)
                  => Matches(get_filter_expression(WithoutQuery(TheMap)), db[r])
       /\ status = 200
          => \A k \in 1..Len(rows) :
                 Matches(get_filter_expression(WithoutQuery(TheMap)), rows[k])

C14_Witness ==
    /\ pc = "done" /\ status = 200
    /\ TheMap = << <<(<<"reference">>), StrV(<<"t">>)>>, <<(<<"_query">>), StrV(<<"3">>)>> >>
    /\ query.where = <<[op |-> "and", col |-> "", val |-> None,
                        args |-> <<Leaf("ilike", "reference", StrV(<<"%", "t", "%">>)),
                                   Leaf("ilike", "reference", StrV(<<"%", "3", "%">>))>>]>>
    /\ Len(rows) = 1 /\ rows[1] = Row(3)

\* C15: when the _query term is the empty string, or no field is eligible for the global
\* search, the compiled predicate is the one compiled from the map without _query.
C15_EmptyTermIsNoOp ==
    (Compiled /\ TheTerm # None /\ (TheTerm = StrV(<<>>) \/ GlobalSearch(TheMap) = <<>>))
    => /\ query.where = Conjunction(EmittedClauses(TheMap))
       /\ count_query.where = query.where
       /\ get_filter_expression(TheMap) = get_filter_expression(WithoutQuery(TheMap))

-----------------------------------------------------------------------------
(* Properties of the assembler and of the response *)

\* data["sort"] is there and not empty
SortPresent == ~data.sort.none /\ data.sort.items # <<>>

\* the ordering data["sort"] asks for
RequestedOrdering ==
    OrderExpr(data.sort.items[1].s[1],
              IF data.sort.items[2] = StrV(<<"ASC">>) THEN "asc"
              ELSE IF data.sort.items[2] = StrV(<<"DESC">>) THEN "desc"
              ELSE "")

\* C16: exactly one ordering source is applied to the data query: a non-empty sort_by
\* wins over data["sort"], data["sort"] wins over fallback_sort, fallback_sort is used
\* only when the other two are absent, and with none the data query has no ordering.
C16_OrderingPrecedence ==
    Compiled
    => /\ sort_by # <<>> => query.order_by = sort_by
       /\ (sort_by = <<>> /\ SortPresent) => query.order_by = <<RequestedOrdering>>
       /\ (sort_by = <<>> /\ ~SortPresent /\ fallback_sort # <<>>)
          => query.order_by = fallback_sort
       /\ (sort_by = <<>> /\ ~SortPresent /\ fallback_sort = <<>>) => query.order_by = <<>>

C16_Witness ==
    /\ pc = "done" /\ status = 200
    /\ sort_by = <<>>
    /\ data.sort = SomeSort(<<StrV(<<"reference">>), StrV(<<"ASC">>)>>)
    /\ fallback_sort = <<OrderExpr("id", "asc")>>
    /\ query.order_by = <<OrderExpr("reference", "asc")>>

\* C17: the count query returned differs from the one passed in only by the filter
\* predicate that was also added to the data query; it has no ordering, offset or limit,
\* and the count is the number of rows matching the filter whatever the sort and range.
C17_CountQueryGetsFilterOnly ==
    Compiled
    => /\ count_query = [EmptyQuery EXCEPT !.where = query.where]
       /\ count_query.order_by = <<>>
       /\ count_query.offset = NoInt /\ count_query.limit = NoInt
       /\ (pc = "done" /\ status = 200)
          => total_count = Cardinality({r \in 1..Len(db) : Satisfies(db[r], query.where)})

C17_Witness ==
    /\ pc = "done" /\ status = 200
    /\ sort_by = <<OrderExpr("pallets", "desc")>>
    /\ data.filter = SomeFilter(<< <<(<<"reference">>), StrV(<<"t">>)>> >>)
    /\ data.range = SomeRange(IntV(1), IntV(2)) /\ apply_range
    /\ query.order_by # <<>> /\ query.offset = SomeInt(1) /\ query.limit = SomeInt(2)
    /\ count_query.where = query.where /\ count_query.limit = NoInt
    /\ Len(db) >= 3 /\ total_count >= 2 /\ Len(rows) < total_count

\* C18: a successful response of GET /orders to a request that supplied a range carries
\* a Content-Range header whose value is generate_range(range, count), count being the
\* result of the filtered count query.
C18_ContentRangeOnRangedResponse ==
    (pc = "done" /\ status = 200 /\ range_raw.kind # "absent")
    => /\ ~data.range.none
       /\ total_count = Len(Matching(count_query, db))
       /\ headers = SomeHeader(generate_range(data.range, total_count))
       /\ headers.value = Dec(range_raw.items[1].i) \o <<"-">> \o Dec(range_raw.items[2].i)
                          \o <<"/">> \o Dec(total_count)

C18_Witness ==
    /\ pc = "done" /\ status = 200
    /\ filter_raw = JsonParam(<< <<(<<"reference">>), StrV(<<"t">>)>> >>)
    /\ range_raw = JsonParam(<<IntV(0), IntV(1)>>)
    /\ Len(db) = 3 /\ total_count = 2
    /\ headers = SomeHeader(<<"0", "-", "1", "/", "2">>)

C20_FilterNeverRaises ==
    (SingleEntry /\ pc \in {"execute", "done"})
    => /\ raised # "compile"
       /\ get_filter_expression(data.filter.map) # Raised

Colons(key) == Cardinality({k \in 1..Len(key) : key[k] = ":"})

\* the map without the entries whose key has two or more ':'
WithoutUnparsable(m) == SelectSeq(m, LAMBDA e : Colons(e[1]) < 2)

\* C22: a key with no ':' parses to (key, no operator); a key with exactly one ':' to
\* (the part before it, the part after it); a key with two or more ':' parses to
\* nothing, and its entry is discarded without error: the compilation raises or not, and
\* gives the data and count predicates, exactly as for the map without that entry, so
\* the entry adds neither an explicit predicate nor a field to the global search.
C22_KeyParsing ==
    (pc \in {"execute", "recompiled", "done"} /\ raised # "params")
    => /\ \A k \in 1..Len(TheMap) :
              LET key == TheMap[k][1]
              IN  /\ Colons(key) = 0 => safe_unpack_filter(key) = <<SomeStr(key), NoStr>>
                  /\ Colons(key) = 1 =>
                         \E i \in 1..Len(key) :
                             /\ key[i] = ":"
                             /\ safe_unpack_filter(key) =
                                    <<SomeStr(SubSeq(key, 1, i - 1)),
                                      SomeStr(SubSeq(key, i + 1, Len(key)))>>
                  /\ Colons(key) >= 2 => safe_unpack_filter(key) = <<NoStr, NoStr>>
       /\ (raised = "compile") = (get_filter_expression(WithoutUnparsable(TheMap)) = Raised)
       /\ raised # "compile"
          => /\ query.where =
                    IF get_filter_expression(WithoutUnparsable(TheMap)) = NoExpr THEN <<>>
                    ELSE <<get_filter_expression(WithoutUnparsable(TheMap))>>
             /\ count_query.where = query.where

C22_Witness ==
    /\ pc = "done" /\ status = 200
    /\ TheMap = << <<(<<"reference", ":", "gte", ":", "gte">>), StrV(<<"t">>)>>,
                   <<(<<"_query">>), StrV(<<"3">>)>>,
                   <<(<<"pallets", ":", "lte">>), IntV(2)>> >>
    /\ query.where = <<Leaf("<=", "pallets", IntV(2))>>
    /\ Len(rows) = 2

\* the comparison an operator part of a key stands for: "=" when absent or unknown
ComparisonOf(operator) ==
    IF operator = <<>> THEN "="
    ELSE IF operator[2] \in DOMAIN SqlComparison THEN SqlComparison[operator[2]]
    ELSE "="

\* the key is the OR group of the fields a and b, with any operator part
GroupKey(a, b) == Len(TheKey) \in {3, 5} /\ SubSeq(TheKey, 1, 3) = <<a, "|", b>>

OrOf(x, y) == [op |-> "or", col |-> "", val |-> None, args |-> <<x, y>>]

\* C23: for an OR-group key with a scalar value the choice between comparison and
\* substring match is made for the group as a whole: if every field of the group is
\* temporal, numeric or boolean each member is compared with the operator of the key;
\* if at least one field is text or enumerated the operator is ignored and every member
\* is matched by case-insensitive substring.
C23_GroupWideOperatorChoice ==
    \A a \in Columns, b \in Columns :
        (SingleEntry /\ Assembled /\ ScalarValue /\ GroupKey(a, b))
        => /\ raised # "compile"
           /\ query.where =
                  IF FieldKind[a] \in ComparedKinds /\ FieldKind[b] \in ComparedKinds
                  THEN <<OrOf(Leaf(ComparisonOf(SubSeq(TheKey, 4, Len(TheKey))), a, TheValue),
                              Leaf(ComparisonOf(SubSeq(TheKey, 4, Len(TheKey))), b, TheValue))>>
                  ELSE <<OrOf(Leaf("ilike", a, IlikePattern(TheValue)),
                              Leaf("ilike", b, IlikePattern(TheValue)))>>

\* the cell of the service column holds the enum value v, given by its number or its name
ServiceEquals(cell, v) ==
    \/ v.t = "int" /\ v.i \in 1..Len(ServiceNames) /\ cell = StrV(ServiceNames[v.i])
    \/ v.t = "str" /\ cell = v

\* C24: the filter {"service": v} with a scalar v gives a predicate that only rows whose
\* service equals v satisfy, so only such rows are returned: no row with another enum
\* value is matched.
C24_EnumFilterIsEquality ==
    (SingleEntry /\ Assembled /\ ScalarValue /\ TheKey = <<"service">>)
    => /\ raised # "compile"
       /\ \A k \in 1..Len(db) :
              Satisfies(db[k], query.where) => ServiceEquals(db[k].service, TheValue)
       /\ \A k \in 1..Len(rows) : ServiceEquals(rows[k].service, TheValue)

\* a sort parameter [field, direction] with a whitelisted field and direction ASC or DESC
WhitelistedSort(f, o) ==
    /\ sort_raw = JsonParam(<<StrV(<<f>>), o>>)
    /\ <<f>> \in SortFields
    /\ o \in {ORDER_ASC, ORDER_DESC}

\* the cells of field f do not decrease along the rows
NonDecreasing(f, rs) == \A i, j \in 1..Len(rs) : i < j => ~CellLess(rs[j][f], rs[i][f])
NonIncreasing(f, rs) == \A i, j \in 1..Len(rs) : i < j => ~CellLess(rs[i][f], rs[j][f])

\* C25: a sort request [field, direction] with a whitelisted field and direction ASC or
\* DESC puts exactly one ordering on the data query, on that field, ascending for ASC and
\* descending for DESC, and the rows of a successful response are in non-decreasing
\* (ASC) or non-increasing (DESC) order of that field, whatever the filter and the range;
\* the sort request is never what makes the compilation fail.
C25_SortOrdersTheRows ==
    \A f \in Columns, o \in {ORDER_ASC, ORDER_DESC} :
        (WhitelistedSort(f, o) /\ pc \in {"execute", "done"} /\ raised # "params")
        => /\ raised = "compile" => (FilterRaises(data) \/ RangeRaises(data, apply_range))
           /\ raised # "compile"
              => query.order_by = <<OrderExpr(f, IF o = ORDER_ASC THEN "asc" ELSE "desc")>>
           /\ (pc = "done" /\ status = 200)
              => IF o = ORDER_ASC THEN NonDecreasing(f, rows) ELSE NonIncreasing(f, rows)

C25_Witness ==
    /\ pc = "done" /\ status = 200
    /\ WhitelistedSort("reference", ORDER_DESC)
    /\ filter_raw = AbsentParam /\ range_raw = AbsentParam
    /\ db = Table(3)
    /\ rows = <<Row(2), Row(3), Row(1)>>

\* a value of the parameter fails the validation of its model
FilterInvalid(raw) ==
    /\ raw.kind = "json"
    /\ \E k \in 1..Len(raw.items) :
           /\ Len(raw.items[k][1]) = 1
           /\ \E n \in 1..Len(FilterModelFields) :
                  /\ raw.items[k][1] = <<FilterModelFields[n]>>
                  /\ ~FilterValueValid(FilterModelFields[n], raw.items[k][2])

SortInvalid(raw) ==
    raw.kind = "json" /\ Len(raw.items) = 2 /\ check_sort_order_raises(raw.items[2])

RangeInvalid(raw) ==
    /\ raw.kind = "json" /\ Len(raw.items) = 2
    /\ \E k \in 1..2 : raw.items[k].t \notin {"int", "null"} \/ is_non_negative_raises(raw.items[k])

\* the parameter is text that is not JSON, or a sort or range that is not a 2-element array
NotJson(raw) == raw.kind = "invalid"
WrongLength(raw) == raw.kind = "json" /\ Len(raw.items) # 2

Malformed ==
    \/ NotJson(filter_raw) \/ FilterInvalid(filter_raw)
    \/ NotJson(sort_raw) \/ WrongLength(sort_raw) \/ SortInvalid(sort_raw)
    \/ NotJson(range_raw) \/ WrongLength(range_raw) \/ RangeInvalid(range_raw)

\* C26: a request with a malformed filter, sort or range parameter (not JSON, a sort or
\* range that is not a 2-element array, or a value that fails model validation) is
\* answered 400 or 422 by CollectionQueryParams; no query is compiled for it.
C26_MalformedParamsAre4xx ==
    (pc = "done" /\ Malformed) => status \in {400, 422} /\ raised = "params"

\* the request filters on date_range, and its value
DateRangeGiven ==
    /\ ~data.filter.none
    /\ DictGet(data.filter.map, <<"date_range">>) # None
TheDateRange == DictGet(data.filter.map, <<"date_range">>).s

\* the orders of the table that match the other filters and the date range
InDateRange ==
    SelectSeq(db, LAMBDA row : Satisfies(row, count_query.where) /\ DateFilterMatches(row, TheDateRange))

\* C27: GET /orders with filter date_range = r, r not 'All', returns exactly the orders
\* that match the other filters and whose eta_date or etd_date lies in the inclusive
\* interval of r, page by page, and counts the same orders; 'All' adds no restriction.
C27_DateRangeRestrictsListing ==
    (pc = "done" /\ status = 200 /\ DateRangeGiven)
    => /\ \A k \in 1..Len(rows) : DateFilterMatches(rows[k], TheDateRange)
       /\ rows = Paginate(query, OrderRows(query.order_by, InDateRange))
       /\ total_count = Len(InDateRange)

\* the map without its excluded keys
WithoutExcluded(m) == SelectSeq(m, LAMBDA e : e[1] \notin ExcludeFilterKeys)

\* C28: an entry whose value is null emits no explicit predicate, but its field is still
\* one of the fields the global search goes over: for a text field f the map
\* {f: null} compiles to no predicate and {f: null, _query: t} to exactly f ILIKE '%t%',
\* on the data and on the count query.
C28_NullEntryStillSearched ==
    \A f \in Columns :
        (/\ pc \in {"execute", "recompiled", "done"} /\ raised # "params"
         /\ FieldKind[f] = "text")
        => /\ WithoutExcluded(TheMap) = << <<(<<f>>), None>> >>
              => raised # "compile" /\ query.where = <<>> /\ count_query.where = <<>>
           /\ \A t \in QueryTerms \ {None} :
                  WithoutExcluded(TheMap) = << <<(<<f>>), None>>, <<(<<"_query">>), t>> >>
                  => /\ raised # "compile"
                     /\ query.where = <<Leaf("ilike", f, StrV(<<"%">> \o t.s \o <<"%">>))>>
                     /\ count_query.where = query.where

C28_Witness ==
    /\ pc = "done" /\ status = 200
    /\ TheMap = << <<(<<"reference">>), None>>, <<(<<"_query">>), StrV(<<"t">>)>> >>
    /\ query.where = <<Leaf("ilike", "reference", StrV(<<"%", "t", "%">>))>>
    /\ rows = <<Row(1), Row(3)>>

IsGroupKey(key) == \E k \in 1..Len(key) : key[k] = "|"

\* the field a key contributes to the global search, as a sequence of 0 or 1 names: the
\* whole field path of a key "a" or "a:op" when it names a column whose type the search
\* does not leave out
SearchedField(key) ==
    IF IsGroupKey(key) \/ Colons(key) >= 2 \/ key = <<>> THEN <<>>
    ELSE IF key[1] \in Columns /\ TypeBases(ColumnType[key[1]]) \cap QueryExcludedTypes = {}
         THEN <<key[1]>>
    ELSE <<>>

SearchedFields(m) ==
    Concat([k \in 1..Len(ExplicitEntries(m)) |-> SearchedField(ExplicitEntries(m)[k][1])])

\* the where clauses of the explicit clauses and-ed with the search of term over fields,
\* each field matched as a filter on it with the term as value and no operator
WithSearch(clauses, fields, term) ==
    LET leaves == [k \in 1..Len(fields) |-> FilterColumn(fields[k], term, NoStr)]
        search == IF Len(leaves) = 1 THEN leaves
                  ELSE <<[op |-> "or", col |-> "", val |-> None, args |-> leaves]>>
    IN  IF fields = <<>> THEN Conjunction(clauses)
        ELSE Conjunction(clauses \o search)

\* C29: the fields of the global search are the whole field paths of the keys: a key "a"
\* or "a:op" contributes the field a, an OR-group key "a|b" contributes neither a nor b;
\* the compiled predicate is the explicit clauses and-ed with the search over exactly
\* those fields, and a map whose only keys are OR groups gets no predicate from _query.
C29_SearchFieldsAreWholePaths ==
    (Compiled /\ TheTerm # None)
    => /\ query.where = WithSearch(EmittedClauses(TheMap), SearchedFields(TheMap), TheTerm)
       /\ count_query.where = query.where
       /\ (\A k \in 1..Len(ExplicitEntries(TheMap)) : IsGroupKey(ExplicitEntries(TheMap)[k][1]))
          => query.where = Conjunction(EmittedClauses(TheMap))

C29_Witness ==
    /\ pc = "done" /\ status = 200
    /\ TheMap = << <<(<<"reference", "|", "pallets">>), IntV(2)>>,
                   <<(<<"_query">>), StrV(<<"t">>)>> >>
    /\ query.where = <<OrOf(Leaf("ilike", "reference", StrV(<<"%", "2", "%">>)),
                            Leaf("=", "pallets", IntV(2)))>>
    /\ rows = <<Row(2)>>

\* the positions of the session log where op was done for the request
LogPositions(op, r) ==
    {k \in 1..Len(session.log) : session.log[k] = SessionOp(op, r)}

\* the positions where the transaction of the request was ended
EndPositions(r) ==
    LogPositions("commit", r) \cup LogPositions("commit_failed", r) \cup LogPositions("rollback", r)

EventsOf(r) == SelectSeq(events, LAMBDA e : e.request = r)

\* the request has left the async with block
Ended(r) == r < create.request \/ (r = create.request /\ create.pc = "done")

\* C30: when the validation fails only OrderValidationFailedEvent is published for the
\* request and no order is created; otherwise OrderCreatedEvent is published once, after
\* the order was created and flushed and before the transaction is committed or rolled
\* back, so it is published whether the commit then succeeds or fails.
C30_EventOrdering ==
    \A r \in 1..MaxRequests :
        /\ \A k \in 1..Len(events) :
               (events[k].request = r /\ events[k].type = "OrderValidationFailedEvent")
               => /\ EventsOf(r) = <<events[k]>>
                  /\ LogPositions("create", r) = {}
                  /\ LogPositions("commit", r) = {}
        /\ \A k \in 1..Len(events) :
               (events[k].request = r /\ events[k].type = "OrderCreatedEvent")
               => /\ EventsOf(r) = <<events[k]>>
                  /\ \E c \in LogPositions("create", r), f \in LogPositions("flush", r) :
                         c < f /\ f <= events[k].at
                  /\ \A p \in EndPositions(r) : p > events[k].at
                  /\ Ended(r) => EndPositions(r) # {}
        /\ (LogPositions("commit", r) \cup LogPositions("commit_failed", r) # {})
           => \E k \in 1..Len(events) :
                  events[k].request = r /\ events[k].type = "OrderCreatedEvent"

C30_Witness ==
    /\ create = [pc |-> "done", request |-> 2, exc |-> "Exception", status |-> 500]
    /\ events = <<Event("OrderValidationFailedEvent", 1, 0), Event("OrderCreatedEvent", 2, 3)>>
    /\ session.log = <<SessionOp("rollback", 1), SessionOp("create", 2), SessionOp("flush", 2),
                       SessionOp("commit_failed", 2)>>
    /\ session.stored = 0

====
